---- MODULE Spec2Model ----
(***************************************************************************)
(* Gujarati news translator backend (backend/app/main.py and services).    *)
(*                                                                         *)
(* A Python str is modelled as a sequence of characters.  A character is a *)
(* one-letter TLA+ string for ASCII ("a", " ", "."), "\n" for a newline,   *)
(* and "uXXXX" for the non-ASCII code point U+XXXX (for example "u0A86"    *)
(* is the Gujarati letter AA, "u0964" is the danda and "u00A9" is the      *)
(* copyright sign), so Len counts characters as Python's len does.         *)
(***************************************************************************)
EXTENDS Integers, Sequences, FiniteSets, TLC

VARIABLES
    sm,     \* one call of Summarizer.summarize: its arguments, locals and return value
    cl,     \* one call of URLExtractor.super_clean_content
    tr,     \* one call of Translator._offline_translate
    rq,     \* one HTTP request to the router, the library outcomes met and its response
    translator,  \* the Translator singleton: gt is TRUE when the online client was created
    db,     \* the activity log (models/database.py): its tables and the database clock
    dbc,    \* the last call made on the activity log, its return value, the calls so far
    ex,     \* one call of URLExtractor.extract
    sv,     \* one call of a method of a services/ class
    reqs    \* requests handled concurrently: each one's position, locals and response

vars == <<sm, cl, tr, rq, translator, db, dbc, ex, sv, reqs>>

---------------------------------------------------------------------------
(* Python str primitives.                                                  *)

Min(a, b) == IF a <= b THEN a ELSE b
Max(a, b) == IF a >= b THEN a ELSE b

\* str.isspace for the characters of the model
IsSpace(c) == c \in {" ", "\n", "\t"}

LowerMap ==
    [c \in {"A","B","C","D","E","F","G","H","I","J","K","L","M",
            "N","O","P","Q","R","S","T","U","V","W","X","Y","Z"} |->
        CASE c = "A" -> "a" [] c = "B" -> "b" [] c = "C" -> "c" [] c = "D" -> "d"
          [] c = "E" -> "e" [] c = "F" -> "f" [] c = "G" -> "g" [] c = "H" -> "h"
          [] c = "I" -> "i" [] c = "J" -> "j" [] c = "K" -> "k" [] c = "L" -> "l"
          [] c = "M" -> "m" [] c = "N" -> "n" [] c = "O" -> "o" [] c = "P" -> "p"
          [] c = "Q" -> "q" [] c = "R" -> "r" [] c = "S" -> "s" [] c = "T" -> "t"
          [] c = "U" -> "u" [] c = "V" -> "v" [] c = "W" -> "w" [] c = "X" -> "x"
          [] c = "Y" -> "y" [] c = "Z" -> "z"]

\* str.lower: only the ASCII capitals of the model's alphabet have a lower case
Lower(s) == [i \in 1..Len(s) |-> IF s[i] \in DOMAIN LowerMap THEN LowerMap[s[i]] ELSE s[i]]

\* str.strip
Strip(s) ==
    IF \A i \in 1..Len(s) : IsSpace(s[i]) THEN <<>>
    ELSE SubSeq(s, CHOOSE i \in 1..Len(s) : ~IsSpace(s[i]) /\ \A j \in 1..(i - 1) : IsSpace(s[j]),
                   CHOOSE i \in 1..Len(s) : ~IsSpace(s[i]) /\ \A j \in (i + 1)..Len(s) : IsSpace(s[j]))

\* s[:n] for n >= 0
Take(s, n) == SubSeq(s, 1, Min(n, Len(s)))

\* needle in hay
Contains(hay, needle) ==
    \E i \in 0..(Len(hay) - Len(needle)) : \A j \in 1..Len(needle) : hay[i + j] = needle[j]

\* s.endswith(suffix)
EndsWith(s, suffix) ==
    /\ Len(suffix) <= Len(s)
    /\ SubSeq(s, Len(s) - Len(suffix) + 1, Len(s)) = suffix

RECURSIVE Join(_, _)
\* sep.join(parts)
Join(parts, sep) ==
    IF Len(parts) = 0 THEN <<>>
    ELSE IF Len(parts) = 1 THEN parts[1]
    ELSE parts[1] \o sep \o Join(Tail(parts), sep)

\* the indices of s, in order
Indices(s) == [i \in 1..Len(s) |-> i]

\* re.sub(r'\s+', ' ', s): the first character of every whitespace run becomes one blank
CollapseWhitespace(s) ==
    LET Keep(i) == ~(IsSpace(s[i]) /\ i > 1 /\ IsSpace(s[i - 1]))
        kept == SelectSeq(Indices(s), Keep)
    IN  [k \in 1..Len(kept) |-> IF IsSpace(s[kept[k]]) THEN " " ELSE s[kept[k]]]

\* the pieces of s around the separators that start at starts[k] and end at ends[k]
PiecesAround(s, starts, ends) ==
    [k \in 1..(Len(starts) + 1) |->
        SubSeq(s, IF k = 1 THEN 1 ELSE ends[k - 1] + 1,
                  IF k = Len(starts) + 1 THEN Len(s) ELSE starts[k] - 1)]

\* re.split(r'[...]', s): every delimiter character separates two pieces
ReSplit(s, delims) ==
    LET IsDelim(i) == s[i] \in delims
        at == SelectSeq(Indices(s), IsDelim)
    IN  PiecesAround(s, at, at)

\* re.split(r'[...]+', s): a run of delimiter characters is one separator
ReSplitRuns(s, delims) ==
    LET RunStart(i) == s[i] \in delims /\ (i = 1 \/ s[i - 1] \notin delims)
        RunEnd(i) == s[i] \in delims /\ (i = Len(s) \/ s[i + 1] \notin delims)
    IN  PiecesAround(s, SelectSeq(Indices(s), RunStart), SelectSeq(Indices(s), RunEnd))

\* str.split(): the maximal runs of non-whitespace characters
Words(s) ==
    LET WordStart(i) == ~IsSpace(s[i]) /\ (i = 1 \/ IsSpace(s[i - 1]))
        WordEnd(i) == ~IsSpace(s[i]) /\ (i = Len(s) \/ IsSpace(s[i + 1]))
        starts == SelectSeq(Indices(s), WordStart)
        ends == SelectSeq(Indices(s), WordEnd)
    IN  [k \in 1..Len(starts) |-> SubSeq(s, starts[k], ends[k])]

\* pat matches s at position p
MatchAt(s, pat, p) ==
    /\ p >= 1 /\ p + Len(pat) - 1 <= Len(s)
    /\ \A j \in 1..Len(pat) : s[p + j - 1] = pat[j]

RECURSIVE DeleteLazyFrom(_, _, _, _, _, _)
\* s[from..] with every leftmost, shortest match of  a.*?b  (and a following "." when
\* optdot) deleted; low is s lower-cased (re.IGNORECASE), "." matches newlines (re.DOTALL)
DeleteLazyFrom(s, low, a, b, optdot, from) ==
    LET ends == {q \in 1..Len(s) : MatchAt(low, b, q)}
        starts == {p \in from..Len(s) : MatchAt(low, a, p) /\ \E q \in ends : q >= p + Len(a)}
    IN  IF starts = {} THEN SubSeq(s, from, Len(s))
        ELSE LET p == CHOOSE x \in starts : \A y \in starts : x <= y
                 qs == {q \in ends : q >= p + Len(a)}
                 q == CHOOSE x \in qs : \A y \in qs : x <= y
                 e == q + Len(b) - 1
                 stop == IF optdot /\ e < Len(s) /\ s[e + 1] = "." THEN e + 1 ELSE e
             IN  SubSeq(s, from, p - 1) \o DeleteLazyFrom(s, low, a, b, optdot, stop + 1)

\* re.sub(r'a.*?b', '', s, flags=re.IGNORECASE | re.DOTALL), a and b given lower-cased
ReSubLazy(s, a, b, optdot) == DeleteLazyFrom(s, Lower(s), a, b, optdot, 1)

\* re.sub(r'\.{2,}', '.', s): a run of periods becomes one period
CollapsePeriods(s) ==
    LET Keep(i) == ~(s[i] = "." /\ i > 1 /\ s[i - 1] = ".")
        kept == SelectSeq(Indices(s), Keep)
    IN  [k \in 1..Len(kept) |-> s[kept[k]]]

\* sum(len(p) for p in parts)
RECURSIVE SumLen(_)
SumLen(parts) == IF parts = <<>> THEN 0 ELSE Len(Head(parts)) + SumLen(Tail(parts))

---------------------------------------------------------------------------
(* Summarizer.summarize (heuristic extractive summarizer).                 *)

\* the sentence delimiters of r'[.!?।]'
SentenceDelims == {".", "!", "?", "u0964"}

NoContentToSummarize == <<"N","o"," ","c","o","n","t","e","n","t"," ","t","o"," ","s","u","m","m",
        "a","r","i","z","e">>
Ellipsis == <<".",".",".">>

keywords ==
    << <<"u0AB8","u0AAE","u0ABE","u0A9A","u0ABE","u0AB0">>, <<"u0A96","u0AAC","u0AB0">>, <<"u0AAE","u0AB9","u0AA4","u0ACD","u0AB5","u0AAA","u0AC2","u0AB0","u0ACD","u0AA3">>, <<"u0AAE","u0AC1","u0A96","u0ACD","u0AAF">>, <<"u0AAA","u0ACD","u0AB0","u0AAE","u0AC1","u0A96">>, <<"u0AB8","u0AB0","u0A95","u0ABE","u0AB0">>, <<"u0A86","u0A9C","u0AC7">>,
       <<"n","e","w","s">>, <<"i","m","p","o","r","t","a","n","t">>, <<"m","a","i","n">>, <<"t","o","d","a","y">> >>

\* (a filter that also keeps a trimmed sentence of exactly 10 characters)
KeepSentenceFromTen(s) == Strip(s) # <<>> /\ Len(Strip(s)) >= 10

\* sentences = [s.strip() for s in sentences if s.strip() and len(s.strip()) > 10]
KeepSentence(s) == Strip(s) # <<>> /\ Len(Strip(s)) > 10

RECURSIVE StripAndFilter(_)
StripAndFilter(pieces) ==
    IF pieces = <<>> THEN <<>>
    ELSE IF KeepSentence(Head(pieces))
         THEN <<Strip(Head(pieces))>> \o StripAndFilter(Tail(pieces))
         ELSE StripAndFilter(Tail(pieces))

\* if len(sentences) <= 2: no scoring
TooFewSentences(sentences) == Len(sentences) <= 2

\* position scoring of the sentence at Python index p among n sentences
PositionScore(p, n) ==
    IF p = 0 THEN 3
    ELSE IF p = n - 1 THEN 2
    ELSE IF p < n \div 3 THEN 1
    ELSE 0

\* (a scorer that tests the 20..50 class first)
LengthScoreShortFirst(length) ==
    IF 20 <= length /\ length <= 50 THEN 1
    ELSE IF 50 <= length /\ length <= 200 THEN 2
    ELSE 0

\* length scoring
LengthScore(length) ==
    IF 50 <= length /\ length <= 200 THEN 2
    ELSE IF 20 <= length /\ length <= 50 THEN 1
    ELSE 0

\* keyword scoring: one point per keyword found in sentence.lower()
KeywordScore(sentence) ==
    Cardinality({k \in 1..Len(keywords) : Contains(Lower(sentence), keywords[k])})

\* scored_sentences before sorting: (score, sentence, i) with i the Python index
ScoreSentences(sentences) ==
    [k \in 1..Len(sentences) |->
        [score |-> PositionScore(k - 1, Len(sentences)) + LengthScore(Len(sentences[k]))
                       + KeywordScore(sentences[k]),
         sentence |-> sentences[k],
         i |-> k - 1]]

\* the sort key (-x[0], x[2]) compared
ScoredBefore(a, b) == a.score > b.score \/ (a.score = b.score /\ a.i < b.i)

RECURSIVE InsertScored(_, _)
InsertScored(x, sorted) ==
    IF sorted = <<>> THEN <<x>>
    ELSE IF ScoredBefore(x, Head(sorted)) THEN <<x>> \o sorted
    ELSE <<Head(sorted)>> \o InsertScored(x, Tail(sorted))

RECURSIVE SortScored(_)
\* scored_sentences.sort(key=lambda x: (-x[0], x[2]))
SortScored(scored) ==
    IF scored = <<>> THEN <<>>
    ELSE InsertScored(Head(scored), SortScored(Tail(scored)))

\* the limit of the selection loop: if len(selected_sentences) >= 3: break
MaxSelected == 3

\* (a budget test that forgets what is already selected)
FitsAlone(total_length, sentence, max_length) == Len(sentence) <= max_length

\* if total_length + len(sentence) <= max_length
Fits(total_length, sentence, max_length) == total_length + Len(sentence) <= max_length

RECURSIVE SelectFrom(_, _, _, _, _)
\* the greedy selection loop over the ranked sentences
SelectFrom(scored, k, max_length, selected, total_length) ==
    IF k > Len(scored) THEN selected
    ELSE LET fits == Fits(total_length, scored[k].sentence, max_length)
             sel2 == IF fits
                     THEN Append(selected, [sentence |-> scored[k].sentence,
                                            original_index |-> scored[k].i])
                     ELSE selected
             tot2 == IF fits THEN total_length + Len(scored[k].sentence) ELSE total_length
         IN  IF Len(sel2) >= MaxSelected THEN sel2
             ELSE SelectFrom(scored, k + 1, max_length, sel2, tot2)

RECURSIVE InsertSelected(_, _)
InsertSelected(x, sorted) ==
    IF sorted = <<>> THEN <<x>>
    ELSE IF x.original_index < Head(sorted).original_index THEN <<x>> \o sorted
    ELSE <<Head(sorted)>> \o InsertSelected(x, Tail(sorted))

RECURSIVE SortSelected(_)
\* selected_sentences.sort(key=lambda x: x[1])
SortSelected(selected) ==
    IF selected = <<>> THEN <<>>
    ELSE InsertSelected(Head(selected), SortSelected(Tail(selected)))

\* (a truncation that keeps the result inside the budget)
TruncateInsideBudget(text, max_length) ==
    IF Len(text) > max_length THEN Take(text, max_length) ELSE text

\* text[:max_length] + "..." if len(text) > max_length else text
TruncateWithEllipsis(text, max_length) ==
    IF Len(text) > max_length THEN Take(text, max_length) \o Ellipsis ELSE text

\* '. '.join(...) and the terminal period
JoinSummary(selected) ==
    LET summary_text == Join([k \in 1..Len(selected) |-> selected[k].sentence], <<"."," ">>)
    IN  IF \E d \in SentenceDelims : EndsWith(summary_text, <<d>>)
        THEN summary_text ELSE summary_text \o <<".">>

\* The locals and the return value of summarize(text, max_length).  branch names the
\* return statement taken.  No statement of the try block raises for a str and an
\* int, so the except branch is not taken.
Summarize(text, max_length) ==
    IF Strip(text) = <<>>
    THEN [branch |-> "empty", text |-> text, sentences |-> <<>>, scored_sentences |-> <<>>,
          selected_sentences |-> <<>>, result |-> NoContentToSummarize]
    ELSE LET clean == CollapseWhitespace(Strip(text))
             sentences == StripAndFilter(ReSplitRuns(clean, SentenceDelims))
         IN  IF TooFewSentences(sentences)
             THEN [branch |-> "short", text |-> clean, sentences |-> sentences,
                   scored_sentences |-> <<>>, selected_sentences |-> <<>>,
                   result |-> TruncateWithEllipsis(clean, max_length)]
             ELSE LET scored == SortScored(ScoreSentences(sentences))
                      selected == SortSelected(SelectFrom(scored, 1, max_length, <<>>, 0))
                      summary_text == JoinSummary(selected)
                  IN  [branch |-> "scored", text |-> clean, sentences |-> sentences,
                       scored_sentences |-> scored, selected_sentences |-> selected,
                       result |-> IF summary_text # <<>> THEN summary_text
                                  ELSE Take(clean, max_length) \o Ellipsis]

---------------------------------------------------------------------------
(* Inputs of the summarizer: texts assembled from a few sentence blocks.   *)

MaxBlocks == 3

SummBlocks ==
    << <<"H","e","l","l","o"," ","w","o","r","l","d","."," ">>,
       <<"B","i","g"," ","N","E","W","S"," ","i","s"," ","o","u","t"," ","h","e",
        "r","e","!"," "," ">>,
       <<"T","h","e"," ","m","a","i","n"," ","r","o","a","d"," ","t","o"," ","t",
        "h","e"," ","o","l","d"," ","c","i","t","y"," ","w","a","s"," ","c","l",
        "o","s","e","d"," ","a","l","l"," ","w","e","e","k","s","?","\n">>,
       <<"O","n","l","y"," ","a"," ","f","e","w","."," ">>,
       <<"A","l","p","h","a"," ","b","e","t","a"," ","g","a","m","m","a","."," ",
        "D","e","l","t","a"," ","e","p","s","i","l","o","n"," ","z","e","t","a",
        "!"," ","E","t","a"," ","t","h","e","t","a"," ","i","o","t","a"," ","k",
        "a","p","p","a","."," ">>,
       <<"u0A86","u0A9C","u0AC7"," ","u0AB8","u0AB0","u0A95","u0ABE","u0AB0"," ","u0AA8","u0AC0"," ","u0A96","u0AAC","u0AB0","u0964"," ">>,
       <<"A","f","t","e","r"," ","m","a","n","y"," ","l","o","n","g"," ","m","o",
        "n","t","h","s"," ","o","f"," ","s","l","o","w"," ","t","a","l","k","s",
        " ","t","h","e"," ","t","w","o"," ","l","a","r","g","e"," ","g","r","o",
        "u","p","s"," ","o","f"," ","l","o","c","a","l"," ","f","a","r","m","e",
        "r","s"," ","a","n","d"," ","c","i","t","y"," ","t","r","a","d","e","r",
        "s"," ","a","t"," ","l","a","s","t"," ","a","g","r","e","e","d"," ","o",
        "n"," ","a"," ","f","a","i","r"," ","p","r","i","c","e"," ","f","o","r",
        " ","g","r","a","i","n"," ","a","n","d"," ","r","i","c","e"," ","a","n",
        "d"," ","t","h","e","y"," ","a","l","s","o"," ","s","e","t"," ","u","p",
        " ","a"," ","s","m","a","l","l"," ","j","o","i","n","t"," ","o","f","f",
        "i","c","e"," ","i","n"," ","t","h","e"," ","o","l","d"," ","t","o","w",
        "n"," ","h","."," ">> >>

SummMaxLengths == {0, 12, 40, 150}

RECURSIVE Concat(_)
Concat(parts) == IF parts = <<>> THEN <<>> ELSE Head(parts) \o Concat(Tail(parts))

BlockSeqs(blocks, n) == UNION {[1..m -> 1..Len(blocks)] : m \in 0..n}

SummTexts == {Concat([k \in DOMAIN bs |-> SummBlocks[bs[k]]]) : bs \in BlockSeqs(SummBlocks, MaxBlocks)}

Idle == [pc |-> "idle"]

\* Database.init_db() on a new file: three empty tables (now is the database clock,
\* in seconds, that CURRENT_TIMESTAMP reads)
init_db == [translations |-> <<>>, summaries |-> <<>>, app_stats |-> <<>>, now |-> 0]

\* the Translator singleton when the online client could not be created at start-up
NoTranslator == [gt |-> FALSE]

SummInit ==
    /\ sm \in {[pc |-> "call", text |-> t, max_length |-> m] : t \in SummTexts, m \in SummMaxLengths}
    /\ cl = Idle /\ tr = Idle /\ rq = Idle /\ translator = NoTranslator
    /\ db = init_db /\ dbc = Idle /\ ex = Idle /\ sv = Idle /\ reqs = <<>>

\* summarizer.summarize(text, max_length) runs to its return
SummarizerSummarize ==
    /\ sm.pc = "call"
    /\ sm' = [pc |-> "done", text |-> sm.text, max_length |-> sm.max_length,
              out |-> Summarize(sm.text, sm.max_length)]
    /\ UNCHANGED <<cl, tr, rq, translator, db, dbc, ex, sv, reqs>>

SummNext == SummarizerSummarize

SpecSummarizer == SummInit /\ [][SummNext]_vars

---------------------------------------------------------------------------
(* Claims about the heuristic summarizer.                                  *)

NotSpace(c) == ~IsSpace(c)
B(cond) == IF cond THEN 1 ELSE 0

SummDone == sm.pc = "done"
SummScored == SummDone /\ sm.out.branch = "scored"

\* C5 as stated: with at most 2 sentences the returned string is the text or the text
\* cut to the budget, so it is never longer than max_length characters.
C5_ShortResultWithinBudget ==
    (SummDone /\ sm.out.branch = "short") => Len(sm.out.result) <= sm.max_length

\* C5 amended: for a non-blank text with at most 2 retained sentences nothing is scored
\* or selected; the result is the whitespace-normalised text when that is at most
\* max_length characters long, and otherwise its first max_length characters followed
\* by "...", so the result is never longer than max_length + 3 characters.
C5_ShortTextReturnedOrCutWithEllipsis ==
    (SummDone /\ Strip(sm.text) # <<>> /\ Len(sm.out.sentences) <= 2) =>
        /\ sm.out.scored_sentences = <<>>
        /\ sm.out.selected_sentences = <<>>
        /\ SelectSeq(sm.out.text, NotSpace) = SelectSeq(sm.text, NotSpace)
        /\ Len(sm.out.text) <= sm.max_length => sm.out.result = sm.out.text
        /\ Len(sm.out.text) > sm.max_length =>
              /\ Len(sm.out.result) = sm.max_length + 3
              /\ SubSeq(sm.out.result, 1, sm.max_length) = SubSeq(sm.out.text, 1, sm.max_length)
              /\ SubSeq(sm.out.result, sm.max_length + 1, sm.max_length + 3) = Ellipsis
        /\ Len(sm.out.result) <= sm.max_length + 3

\* a text of two retained sentences that is longer than the budget was cut
C5_Witness ==
    /\ SummDone /\ sm.out.branch = "short"
    /\ Len(sm.out.sentences) = 2
    /\ sm.max_length > 0
    /\ Len(sm.out.text) > sm.max_length
    /\ Len(sm.out.result) = sm.max_length + 3

\* rank k of the ranking was selected
Chosen(k) ==
    \E j \in 1..Len(sm.out.selected_sentences) :
        sm.out.selected_sentences[j].original_index = sm.out.scored_sentences[k].i

RECURSIVE ChosenLenBefore(_)
\* the characters selected among the ranks before k
ChosenLenBefore(k) ==
    IF k <= 1 THEN 0
    ELSE ChosenLenBefore(k - 1)
            + (IF Chosen(k - 1) THEN Len(sm.out.scored_sentences[k - 1].sentence) ELSE 0)

ChosenCountBefore(k) == Cardinality({j \in 1..(k - 1) : Chosen(j)})

\* C6: when the summarizer scores, at most 3 sentences are selected, their lengths sum
\* to at most max_length, a ranked sentence is selected exactly when fewer than 3 are
\* selected before it and it fits what is left of the budget (so one that does not fit
\* is skipped and the selection goes on), and the summary is the selected sentences
\* in their original order joined with ". " and ends with a sentence terminator.
C6_SelectionWithinBudgetInOrder ==
    SummScored =>
        LET sel == sm.out.selected_sentences
            joined == Join([j \in 1..Len(sel) |-> sel[j].sentence], <<".", " ">>)
        IN  /\ Len(sm.out.sentences) > 2
            /\ Len(sel) <= 3
            /\ SumLen([j \in 1..Len(sel) |-> sel[j].sentence]) <= sm.max_length
            /\ \A k \in 1..Len(sm.out.scored_sentences) :
                  Chosen(k) <=>
                     /\ ChosenCountBefore(k) < 3
                     /\ ChosenLenBefore(k) + Len(sm.out.scored_sentences[k].sentence)
                            <= sm.max_length
            /\ \A j \in 1..Len(sel) :
                  /\ sel[j].sentence = sm.out.sentences[sel[j].original_index + 1]
                  /\ j > 1 => sel[j - 1].original_index < sel[j].original_index
            /\ sel # <<>> =>
                  /\ SubSeq(sm.out.result, 1, Len(joined)) = joined
                  /\ Len(sm.out.result) <= Len(joined) + 1
            /\ sm.out.result # <<>>
            /\ sm.out.result[Len(sm.out.result)] \in SentenceDelims

\* three sentences were selected after a higher-ranked one that did not fit was skipped,
\* and a lower-ranked one that would still fit was left out by the cap
C6_Witness ==
    /\ SummScored
    /\ Len(sm.out.selected_sentences) = 3
    /\ \E k, j \in 1..Len(sm.out.scored_sentences) : k < j /\ ~Chosen(k) /\ Chosen(j)
    /\ \E k \in 1..Len(sm.out.scored_sentences) :
          /\ ~Chosen(k)
          /\ ChosenLenBefore(k) + Len(sm.out.scored_sentences[k].sentence) <= sm.max_length

\* the score the specification gives the sentence at Python index i
StatedScore(i, sentences) ==
    LET n == Len(sentences)
        length == Len(sentences[i + 1])
        first == i = 0
        last == i = n - 1
    IN  3 * B(first) + 2 * B(last /\ ~first) + B(~first /\ ~last /\ 3 * (i + 1) <= n)
        + 2 * B(length >= 50 /\ length <= 200) + B(length >= 20 /\ length < 50)
        + Cardinality({k \in 1..Len(keywords) : Contains(Lower(sentences[i + 1]), keywords[k])})

\* C7: every retained sentence is ranked once, with the score position (+3 first, +2
\* last, +1 first third) plus length (+2 for 50..200, +1 for 20..50 below 50) plus one
\* per keyword found in the lower-cased sentence; the ranking is by score descending,
\* ties by original position ascending.
C7_ScoresAndRanking ==
    SummScored =>
        LET sc == sm.out.scored_sentences
            n == Len(sm.out.sentences)
        IN  /\ Len(sc) = n
            /\ \A i \in 0..(n - 1) : \E k \in 1..n : sc[k].i = i
            /\ \A k \in 1..n :
                  /\ sc[k].sentence = sm.out.sentences[sc[k].i + 1]
                  /\ sc[k].score = StatedScore(sc[k].i, sm.out.sentences)
            /\ \A k \in 1..(n - 1) :
                  \/ sc[k].score > sc[k + 1].score
                  \/ sc[k].score = sc[k + 1].score /\ sc[k].i < sc[k + 1].i

\* a ranking with a first-third point, a 50-character sentence holding a keyword,
\* and a tie broken by position
C7_Witness ==
    /\ SummScored
    /\ \E k \in 1..Len(sm.out.scored_sentences) :
          /\ sm.out.scored_sentences[k].i = 1
          /\ 3 * 2 <= Len(sm.out.sentences)
    /\ \E k \in 1..Len(sm.out.scored_sentences) :
          /\ Len(sm.out.scored_sentences[k].sentence) = 50
          /\ Contains(Lower(sm.out.scored_sentences[k].sentence), <<"m","a","i","n">>)
    /\ \E k \in 1..(Len(sm.out.scored_sentences) - 1) :
          /\ sm.out.scored_sentences[k].score = sm.out.scored_sentences[k + 1].score
          /\ sm.out.scored_sentences[k].i < sm.out.scored_sentences[k + 1].i

---------------------------------------------------------------------------
(* URLExtractor.super_clean_content (boilerplate filter).                  *)

nuclear_removal_phrases ==
    << <<"O","u","r"," ","D","i","v","i","s","i","o","n","s"," ","C","o","p","y",
        "r","i","g","h","t">>, <<"D","B"," ","C","o","r","p"," ","l","t","d">>, <<"A","l","l"," ","R","i","g","h","t","s"," ","R","e","s","e","r","v","e",
        "d">>,
       <<"D","N","P","A"," ","C","o","d","e"," ","o","f"," ","E","t","h","i","c",
        "s">>, <<"T","h","i","s"," ","w","e","b","s","i","t","e"," ","f","o","l","l","o",
        "w","s">>, <<"O","u","r"," ","D","i","v","i","s","i","o","n","s">>,
       <<"C","o","p","y","r","i","g","h","t"," ","u00A9">>, <<"2","0","2","4","-","2","5">>, <<"2","0","2","3","-","2","4">>, <<"2","0","2","5","-","2","6">> >>

bad_words == { <<"c","o","p","y","r","i","g","h","t">>, <<"c","o","r","p">>, <<"d","i","v","i","s","i","o","n">>, <<"r","e","s","e","r","v","e","d">>, <<"e","t","h","i","c","s">>, <<"d","n","p","a">> }

NoMeaningfulContent == <<"N","o"," ","m","e","a","n","i","n","g","f","u","l"," ","c","o","n","t",
        "e","n","t"," ","f","o","u","n","d"," ","a","f","t","e","r"," ","a","g",
        "g","r","e","s","s","i","v","e"," ","c","l","e","a","n","i","n","g">>

\* if len(sentence) < 15: continue
MinSentenceLen == 15

\* return result if len(result) > 50 else <the fixed message>
MinResultLen == 50

\* (a phrase test that compares the sentence as written)
ContainsNuclearExactCase(sentence) ==
    \E k \in 1..Len(nuclear_removal_phrases) : Contains(sentence, nuclear_removal_phrases[k])

\* any(phrase.lower() in sentence.lower() for phrase in nuclear_removal_phrases)
ContainsNuclear(sentence) ==
    \E k \in 1..Len(nuclear_removal_phrases) :
        Contains(Lower(sentence), Lower(nuclear_removal_phrases[k]))

\* more than 20% of the words of the sentence are bad words
HighBadWordDensity(sentence) ==
    LET words == Words(Lower(sentence))
        bad_word_count == Cardinality({k \in 1..Len(words) : words[k] \in bad_words})
    IN  Len(words) > 0 /\ 5 * bad_word_count > Len(words)

RECURSIVE FilterSentences(_)
\* the loop over the split sentences: the stripped sentences that are kept
FilterSentences(pieces) ==
    IF pieces = <<>> THEN <<>>
    ELSE LET sentence == Strip(Head(pieces))
         IN  IF Len(sentence) < MinSentenceLen THEN FilterSentences(Tail(pieces))
             ELSE IF ContainsNuclear(sentence) THEN FilterSentences(Tail(pieces))
             ELSE IF HighBadWordDensity(sentence) THEN FilterSentences(Tail(pieces))
             ELSE <<sentence>> \o FilterSentences(Tail(pieces))

\* the three final regex deletions
FinalRegexCleanup(result) ==
    LET r1 == ReSubLazy(result, <<"o","u","r"," ","d","i","v","i","s","i","o","n","s">>, <<"e","t","h","i","c","s">>, TRUE)
        r2 == ReSubLazy(r1, <<"c","o","p","y","r","i","g","h","t">>, <<"r","e","s","e","r","v","e","d">>, FALSE)
    IN  ReSubLazy(r2, <<"d","b"," ","c","o","r","p">>, <<"e","t","h","i","c","s">>, FALSE)

\* (a return without the length test)
RejectShortUnchecked(result) == result

\* (a length test that also returns a result of exactly 50 characters)
RejectShortFromFifty(result) == IF Len(result) >= MinResultLen THEN result ELSE NoMeaningfulContent

\* return result if len(result) > 50 else "No meaningful content found after ..."
RejectShort(result) == IF Len(result) > MinResultLen THEN result ELSE NoMeaningfulContent

\* The locals and the return value of super_clean_content(text).
SuperCleanContent(text) ==
    IF text = <<>>
    THEN [branch |-> "empty", sentences |-> <<>>, clean_sentences |-> <<>>,
          result |-> <<>>, ret |-> <<>>]
    ELSE LET sentences == ReSplit(text, SentenceDelims)
             clean_sentences == FilterSentences(sentences)
             joined == Join(clean_sentences, <<"."," ">>)
             result == CollapsePeriods(Strip(CollapseWhitespace(FinalRegexCleanup(joined))))
         IN  [branch |-> "cleaned", sentences |-> sentences,
              clean_sentences |-> clean_sentences, result |-> result,
              ret |-> RejectShort(result)]

CleanBlocks ==
    << <<" ","\n">>,
       <<"T","h","e"," ","c","i","t","y"," ","c","o","u","n","c","i","l"," ","m",
        "e","t"," ","o","n"," ","M","o","n","d","a","y"," ","t","o"," ","d","i",
        "s","c","u","s","s"," ","t","h","e"," ","n","e","w"," ","w","a","t","e",
        "r"," ","p","l","a","n","."," ">>,
       <<"T","h","e"," ","m","a","i","n"," ","r","o","a","d"," ","t","o"," ","t",
        "h","e"," ","o","l","d"," ","c","i","t","y"," ","w","a","s"," ","c","l",
        "o","s","e","d"," ","a","l","l"," ","w","e","e","k","s">>,
       <<"C","o","p","y","r","i","g","h","t"," ","u00A9"," ","2","0","2","0"," ","b",
        "y"," ","t","h","e"," ","p","a","p","e","r","."," ">>,
       <<"A","L","L"," ","R","I","G","H","T","S"," ","R","E","S","E","R","V","E",
        "D"," ","f","o","r"," ","t","h","i","s"," ","s","i","t","e","!"," ">>,
       <<"c","o","r","p"," ","d","i","v","i","s","i","o","n"," ","n","e","w","s",
        "?"," ">>,
       <<"W","e"," ","k","e","e","p"," ","a","l","l"," ","r","i","g","h","t","s",
        " ","c","o","p","y","r","i","g","h","t","r","e","s","e","r","v","e","d",
        " ","r","e","s","e","r","v","e","d"," ","i","n"," ","e","v","e","r","y",
        " ","c","a","s","e"," ","h","e","r","e","."," ">>,
       <<"u0A86","u0A9C","u0AC7"," ","u0AB8","u0AB0","u0A95","u0ABE","u0AB0"," ","u0AA8","u0AC0"," ","u0A96","u0AAC","u0AB0"," ","u0A86",
        "u0AB5","u0AC0"," ","u0A9B","u0AC7","u0964"," ">> >>

CleanTexts == {Concat([k \in DOMAIN bs |-> CleanBlocks[bs[k]]]) : bs \in BlockSeqs(CleanBlocks, MaxBlocks)}

CleanInit ==
    /\ cl \in {[pc |-> "call", text |-> t] : t \in CleanTexts}
    /\ sm = Idle /\ tr = Idle /\ rq = Idle /\ translator = NoTranslator
    /\ db = init_db /\ dbc = Idle /\ ex = Idle /\ sv = Idle /\ reqs = <<>>

\* extractor.super_clean_content(text) runs to its return
SuperClean ==
    /\ cl.pc = "call"
    /\ cl' = [pc |-> "done", text |-> cl.text, out |-> SuperCleanContent(cl.text)]
    /\ UNCHANGED <<sm, tr, rq, translator, db, dbc, ex, sv, reqs>>

CleanNext == SuperClean

SpecCleaner == CleanInit /\ [][CleanNext]_vars

---------------------------------------------------------------------------
(* Claims about the boilerplate filter.                                    *)

CleanDone == cl.pc = "done"

\* sentence holds phrase as a substring when both are lower-cased
HoldsPhrase(sentence, phrase) ==
    \E i \in 1..Len(sentence) :
        /\ i + Len(phrase) - 1 <= Len(sentence)
        /\ Lower(SubSeq(sentence, i, i + Len(phrase) - 1)) = Lower(phrase)

\* C8: for every input text, every kept sentence is one of the split sentences of the
\* text (stripped) and none of the kept sentences contains one of the fixed legal
\* phrases as a substring, compared case-insensitively.
C8_NoKeptSentenceHoldsLegalPhrase ==
    CleanDone =>
        \A k \in 1..Len(cl.out.clean_sentences) :
            /\ \E j \in 1..Len(cl.out.sentences) :
                  cl.out.clean_sentences[k] = Strip(cl.out.sentences[j])
            /\ \A p \in 1..Len(nuclear_removal_phrases) :
                  ~HoldsPhrase(cl.out.clean_sentences[k], nuclear_removal_phrases[p])

\* a sentence holding a legal phrase in another case was dropped and another was kept
C8_Witness ==
    /\ CleanDone
    /\ cl.out.clean_sentences # <<>>
    /\ \E j \in 1..Len(cl.out.sentences) :
          /\ HoldsPhrase(cl.out.sentences[j], nuclear_removal_phrases[3])
          /\ ~Contains(cl.out.sentences[j], nuclear_removal_phrases[3])
          /\ \A k \in 1..Len(cl.out.clean_sentences) :
                cl.out.clean_sentences[k] # Strip(cl.out.sentences[j])

---------------------------------------------------------------------------
(* Translator._offline_translate (transliteration fallback).               *)

\* self.gujarati_to_english: character -> Latin letters
gujarati_to_english ==
    "u0A85" :> <<"a">> @@ "u0A86" :> <<"a","a">> @@ "u0A87" :> <<"i">>
    @@ "u0A88" :> <<"i","i">> @@ "u0A89" :> <<"u">> @@ "u0A8A" :> <<"u","u">>
    @@ "u0A8F" :> <<"e">> @@ "u0A90" :> <<"a","i">> @@ "u0A93" :> <<"o">>
    @@ "u0A94" :> <<"a","u">> @@ "u0A95" :> <<"k","a">> @@ "u0A96" :> <<"k","h","a">>
    @@ "u0A97" :> <<"g","a">> @@ "u0A98" :> <<"g","h","a">> @@ "u0A99" :> <<"n","g","a">>
    @@ "u0A9A" :> <<"c","h","a">> @@ "u0A9B" :> <<"c","h","h","a">> @@ "u0A9C" :> <<"j","a">>
    @@ "u0A9D" :> <<"j","h","a">> @@ "u0A9E" :> <<"n","j","a">> @@ "u0A9F" :> <<"t","a">>
    @@ "u0AA0" :> <<"t","h","a">> @@ "u0AA1" :> <<"d","a">> @@ "u0AA2" :> <<"d","h","a">>
    @@ "u0AA3" :> <<"n","a">> @@ "u0AA4" :> <<"t","a">> @@ "u0AA5" :> <<"t","h","a">>
    @@ "u0AA6" :> <<"d","a">> @@ "u0AA7" :> <<"d","h","a">> @@ "u0AA8" :> <<"n","a">>
    @@ "u0AAA" :> <<"p","a">> @@ "u0AAB" :> <<"p","h","a">> @@ "u0AAC" :> <<"b","a">>
    @@ "u0AAD" :> <<"b","h","a">> @@ "u0AAE" :> <<"m","a">> @@ "u0AAF" :> <<"y","a">>
    @@ "u0AB0" :> <<"r","a">> @@ "u0AB2" :> <<"l","a">> @@ "u0AB5" :> <<"v","a">>
    @@ "u0AB6" :> <<"s","h","a">> @@ "u0AB7" :> <<"s","h","a">> @@ "u0AB8" :> <<"s","a">>
    @@ "u0AB9" :> <<"h","a">> @@ "u0964" :> <<".">> @@ "?" :> <<"?">>
    @@ "!" :> <<"!">> @@ "," :> <<",">> @@ ";" :> <<";">>
    @@ ":" :> <<":">>

\* self.word_translations: Gujarati word -> English
word_translations ==
    <<"u0AB8","u0AAE","u0ABE","u0A9A","u0ABE","u0AB0">> :> <<"n","e","w","s">>
    @@ <<"u0A96","u0AAC","u0AB0">> :> <<"n","e","w","s">>
    @@ <<"u0A86","u0A9C">> :> <<"t","o","d","a","y">>
    @@ <<"u0A86","u0A9C","u0AC7">> :> <<"t","o","d","a","y">>
    @@ <<"u0A97","u0AC1","u0A9C","u0AB0","u0ABE","u0AA4">> :> <<"G","u","j","a","r","a","t">>
    @@ <<"u0AAD","u0ABE","u0AB0","u0AA4">> :> <<"I","n","d","i","a">>
    @@ <<"u0A85","u0AB9","u0AC0","u0A82">> :> <<"h","e","r","e">>
    @@ <<"u0AA4","u0ACD","u0AAF","u0ABE","u0A82">> :> <<"t","h","e","r","e">>
    @@ <<"u0AB2","u0ACB","u0A95","u0ACB">> :> <<"p","e","o","p","l","e">>
    @@ <<"u0A9C","u0AA8","u0AA4","u0ABE">> :> <<"p","u","b","l","i","c">>
    @@ <<"u0AB8","u0AB0","u0A95","u0ABE","u0AB0">> :> <<"g","o","v","e","r","n","m","e","n","t">>
    @@ <<"u0AAE","u0AC1","u0A96","u0ACD","u0AAF","u0AAE","u0A82","u0AA4","u0ACD","u0AB0","u0AC0">> :> <<"C","h","i","e","f"," ","M","i","n","i","s","t","e","r">>
    @@ <<"u0AAA","u0ACD","u0AB0","u0AA7","u0ABE","u0AA8","u0AAE","u0A82","u0AA4","u0ACD","u0AB0","u0AC0">> :> <<"P","r","i","m","e"," ","M","i","n","i","s","t","e","r">>
    @@ <<"u0AB5","u0AB0","u0ACD","u0AB7">> :> <<"y","e","a","r">>
    @@ <<"u0AAE","u0AB9","u0ABF","u0AA8","u0ACB">> :> <<"m","o","n","t","h">>
    @@ <<"u0AA6","u0ABF","u0AB5","u0AB8">> :> <<"d","a","y">>
    @@ <<"u0AB8","u0AAE","u0AAF">> :> <<"t","i","m","e">>
    @@ <<"u0AAA","u0AC8","u0AB8","u0ABE">> :> <<"m","o","n","e","y">>
    @@ <<"u0AB0","u0AC2","u0AAA","u0ABF","u0AAF","u0ABE">> :> <<"r","u","p","e","e","s">>
    @@ <<"u0AB9","u0A9C","u0ABE","u0AB0">> :> <<"t","h","o","u","s","a","n","d">>
    @@ <<"u0AB2","u0ABE","u0A96">> :> <<"l","a","k","h">>
    @@ <<"u0A95","u0AB0","u0ACB","u0AA1">> :> <<"c","r","o","r","e">>
    @@ <<"u0A85","u0AAC","u0A9C">> :> <<"b","i","l","l","i","o","n">>
    @@ <<"u0AB6","u0AB9","u0AC7","u0AB0">> :> <<"c","i","t","y">>
    @@ <<"u0A97","u0ABE","u0AAE">> :> <<"v","i","l","l","a","g","e">>
    @@ <<"u0AB0","u0ABE","u0A9C","u0ACD","u0AAF">> :> <<"s","t","a","t","e">>
    @@ <<"u0A95","u0ACB","u0AB0","u0ACD","u0A9F">> :> <<"c","o","u","r","t">>
    @@ <<"u0AA8","u0ACD","u0AAF","u0ABE","u0AAF">> :> <<"j","u","s","t","i","c","e">>
    @@ <<"u0A95","u0ABE","u0AAF","u0AA6","u0ACB">> :> <<"l","a","w">>
    @@ <<"u0AAA","u0ACB","u0AB2","u0AC0","u0AB8">> :> <<"p","o","l","i","c","e">>
    @@ <<"u0A9A","u0AC2","u0A82","u0A9F","u0AA3","u0AC0">> :> <<"e","l","e","c","t","i","o","n">>
    @@ <<"u0AAA","u0ABE","u0AB0","u0ACD","u0A9F","u0AC0">> :> <<"p","a","r","t","y">>

TransliteratedTag == <<"[","T","r","a","n","s","l","i","t","e","r","a","t","e","d","]"," ">>

\* the inner loop: every character through the map, unmapped characters kept
Transliterate(word) ==
    Concat([i \in 1..Len(word) |->
               IF word[i] \in DOMAIN gujarati_to_english THEN gujarati_to_english[word[i]]
               ELSE <<word[i]>>])

\* (a word loop without the dictionary)
TranslateWordByCharacters(word) == Transliterate(word)

\* the body of the loop over the words
TranslateWord(word) ==
    IF word \in DOMAIN word_translations THEN word_translations[word]
    ELSE Transliterate(word)

\* The locals and the return value of _offline_translate(text).
OfflineTranslate(text) ==
    LET words == Words(text)
        translated_words == [k \in 1..Len(words) |-> TranslateWord(words[k])]
    IN  [words |-> words, translated_words |-> translated_words,
         result |-> TransliteratedTag \o Join(translated_words, <<" ">>)]

MaxWords == 3

WordBlocks ==
    << <<"u0A86","u0A9C","u0AC7"," ">>, <<"u0A86","u0A9C",","," ">>, <<"u0AAE","u0AC1","u0A96","u0ACD","u0AAF","u0AAE","u0A82","u0AA4","u0ACD","u0AB0","u0AC0","\n">>, <<"u0A95","u0AAE","u0AB2"," "," ">>, <<"n","e","w","s"," ">>, <<" ","u0A97","u0ABE","u0AAE">>, <<"u0AB8","u0AAE","u0ABE","u0A9A","u0ABE","u0AB0","u0964">> >>

TranslateTexts == {Concat([k \in DOMAIN bs |-> WordBlocks[bs[k]]]) : bs \in BlockSeqs(WordBlocks, MaxWords)}

TranslateInit ==
    /\ tr \in {[pc |-> "call", text |-> t] : t \in TranslateTexts}
    /\ sm = Idle /\ cl = Idle /\ rq = Idle /\ translator = NoTranslator
    /\ db = init_db /\ dbc = Idle /\ ex = Idle /\ sv = Idle /\ reqs = <<>>

\* translator._offline_translate(text) runs to its return
OfflineTranslateCall ==
    /\ tr.pc = "call"
    /\ tr' = [pc |-> "done", text |-> tr.text, out |-> OfflineTranslate(tr.text)]
    /\ UNCHANGED <<sm, cl, rq, translator, db, dbc, ex, sv, reqs>>

TranslateNext == OfflineTranslateCall

SpecTranslator == TranslateInit /\ [][TranslateNext]_vars

---------------------------------------------------------------------------
(* Claims about the transliteration fallback.                              *)

TranslateDone == tr.pc = "done"

\* what the character map makes of one character
Image(c) == IF c \in DOMAIN gujarati_to_english THEN gujarati_to_english[c] ELSE <<c>>

RECURSIVE ImageOffset(_, _)
\* the length of the rendering of the first i - 1 characters of word
ImageOffset(word, i) ==
    IF i <= 1 THEN 0 ELSE ImageOffset(word, i - 1) + Len(Image(word[i - 1]))

\* r is word rendered character by character through the character map
RenderedByCharacters(word, r) ==
    /\ Len(r) = ImageOffset(word, Len(word) + 1)
    /\ \A i \in 1..Len(word) :
          SubSeq(r, ImageOffset(word, i) + 1, ImageOffset(word, i + 1)) = Image(word[i])

RECURSIVE WordOffset(_, _)
\* where the k-th rendered word starts in the result, less one
WordOffset(rendered, k) ==
    IF k <= 1 THEN Len(TransliteratedTag)
    ELSE WordOffset(rendered, k - 1) + Len(rendered[k - 1]) + 1

\* C10: the words are the whitespace-separated words of the input; a word that is a
\* key of the word dictionary is rendered as its dictionary translation, every other
\* word character by character through the character map with unmapped characters
\* kept; the result is the tag "[Transliterated] " followed by the rendered words
\* separated by single blanks.
C10_DictionaryBeforeCharacterMap ==
    TranslateDone =>
        LET words == tr.out.words
            rendered == tr.out.translated_words
            result == tr.out.result
        IN  /\ Concat(words) = SelectSeq(tr.text, NotSpace)
            /\ Len(words) = Cardinality({i \in 1..Len(tr.text) :
                                  ~IsSpace(tr.text[i]) /\ (i = 1 \/ IsSpace(tr.text[i - 1]))})
            /\ \A k \in 1..Len(words) : words[k] # <<>>
            /\ Len(rendered) = Len(words)
            /\ \A k \in 1..Len(words) :
                  IF words[k] \in DOMAIN word_translations
                  THEN rendered[k] = word_translations[words[k]]
                  ELSE RenderedByCharacters(words[k], rendered[k])
            /\ SubSeq(result, 1, Len(TransliteratedTag)) = TransliteratedTag
            /\ Len(result) = IF words = <<>> THEN Len(TransliteratedTag)
                             ELSE WordOffset(rendered, Len(words)) + Len(rendered[Len(words)])
            /\ \A k \in 1..Len(words) :
                  /\ SubSeq(result, WordOffset(rendered, k) + 1,
                            WordOffset(rendered, k) + Len(rendered[k])) = rendered[k]
                  /\ k > 1 => result[WordOffset(rendered, k)] = " "

\* a dictionary word was rendered by the dictionary where the character map gives
\* something else, next to a word that went through the character map and kept an
\* unmapped character
C10_Witness ==
    /\ TranslateDone
    /\ \E k \in 1..Len(tr.out.words) :
          /\ tr.out.words[k] \in DOMAIN word_translations
          /\ tr.out.translated_words[k] = word_translations[tr.out.words[k]]
          /\ ~RenderedByCharacters(tr.out.words[k], tr.out.translated_words[k])
    /\ \E k \in 1..Len(tr.out.words) :
          /\ tr.out.words[k] \notin DOMAIN word_translations
          /\ \E i \in 1..Len(tr.out.words[k]) : tr.out.words[k][i] \in DOMAIN gujarati_to_english
          /\ \E i \in 1..Len(tr.out.words[k]) : tr.out.words[k][i] \notin DOMAIN gujarati_to_english
          /\ tr.out.translated_words[k] # tr.out.words[k]

---------------------------------------------------------------------------
(* The services as the request handlers call them.  A call into a library  *)
(* either returns a value or raises: [kind |-> "return", value |-> v] or   *)
(* [kind |-> "raise", msg |-> m].                                          *)

Return(v) == [kind |-> "return", value |-> v]
Raise(m) == [kind |-> "raise", msg |-> m]

NoTextToTranslate == <<"N","o"," ","t","e","x","t"," ","t","o"," ","t","r","a","n","s","l","a",
        "t","e">>

\* (a translate that lets the failure of the online call out)
TranslatorTranslateNoFallback(gt, text, online) ==
    IF Strip(text) = <<>> THEN Return(NoTextToTranslate)
    ELSE IF gt THEN online
    ELSE Return(OfflineTranslate(text).result)

\* Translator.translate(text): online is what self.gt.translate(text) does when called.
\* _offline_translate raises nothing for a str, so the last except is not taken.
TranslatorTranslate(gt, text, online) ==
    IF Strip(text) = <<>> THEN Return(NoTextToTranslate)
    ELSE IF gt /\ online.kind = "return" THEN Return(online.value)
    ELSE Return(OfflineTranslate(text).result)

\* (a translate that runs the offline rendering whatever the online call did)
TranslateCallsOfflineAlways(gt, text, online) ==
    IF Strip(text) = <<>> THEN <<>>
    ELSE (IF gt THEN <<"gt.translate">> ELSE <<>>) \o <<"_offline_translate">>

\* the calls Translator.translate(text) makes, in order: self.gt.translate if self.gt is
\* set, then self._offline_translate unless the online call returned
TranslateCalls(gt, text, online) ==
    IF Strip(text) = <<>> THEN <<>>
    ELSE IF gt /\ online.kind = "return" THEN <<"gt.translate">>
    ELSE (IF gt THEN <<"gt.translate">> ELSE <<>>) \o <<"_offline_translate">>

\* URLExtractor.is_divya_bhaskar(url)
is_divya_bhaskar(url) ==
    \/ Contains(Lower(url), <<"d","i","v","y","a","b","h","a","s","k","a","r",".","c","o",".","i","n">>)
    \/ Contains(Lower(url), <<"d","i","v","y","a","b","h","a","s","k","a","r">>)

FailedDivyaBhaskar == <<"F","a","i","l","e","d"," ","t","o"," ","e","x","t","r","a","c","t"," ",
        "c","o","n","t","e","n","t"," ","f","r","o","m"," ","D","i","v","y","a",
        " ","B","h","a","s","k","a","r",":"," ">>
ExtractionFailed == <<"E","x","t","r","a","c","t","i","o","n"," ","f","a","i","l","e","d",":",
        " ">>
NoContentExtracted == <<"N","o"," ","m","e","a","n","i","n","g","f","u","l"," ","c","o","n","t",
        "e","n","t"," ","e","x","t","r","a","c","t","e","d">>
NoContentFound == <<"N","o"," ","m","e","a","n","i","n","g","f","u","l"," ","c","o","n","t",
        "e","n","t"," ","f","o","u","n","d">>

\* return cleaned[:5000]
MaxExtractChars == 5000

\* URLExtractor.extract_divya_bhaskar_content(url): page is what requests.get does; its
\* value is the content_text the three selector strategies take from the fetched page
extract_divya_bhaskar_content(url, page) ==
    IF page.kind = "raise" THEN FailedDivyaBhaskar \o page.msg
    ELSE SuperCleanContent(page.value).ret

\* URLExtractor.extract(url): article is what newspaper's download and parse do (its
\* value is article.text), page is what requests.get does (its value is main_content)
extract(url, article, page) ==
    IF is_divya_bhaskar(url) THEN extract_divya_bhaskar_content(url, page)
    ELSE IF article.kind = "return" /\ article.value # <<>>
         THEN LET cleaned == SuperCleanContent(article.value).ret
              IN  IF cleaned # <<>> THEN cleaned ELSE NoContentExtracted
    ELSE IF page.kind = "raise" THEN ExtractionFailed \o page.msg
    ELSE LET cleaned == SuperCleanContent(page.value).ret
         IN  IF cleaned # <<>> THEN Take(cleaned, MaxExtractChars) ELSE NoContentFound

---------------------------------------------------------------------------
(* The request router (FastAPI handlers).  The body of a handler's try     *)
(* block ends in [kind |-> "return", body |-> b, calls |-> c] or in        *)
(* [kind |-> "raise", exc |-> e, calls |-> c]; calls lists the service     *)
(* calls made, in order.                                                   *)

HTTPException(status_code, detail) ==
    [type |-> "HTTPException", status_code |-> status_code, detail |-> detail]

\* an exception raised by a service, with its message
ServiceError(msg) == [type |-> "Exception", msg |-> msg]

\* except Exception as e: raise HTTPException(status_code=500, detail=str(e)).
\* HTTPException is a subclass of Exception, so the one raised in the try block is
\* caught here as well; the caught exception stands for its str().
ExceptException(outcome) ==
    IF outcome.kind = "raise"
    THEN [outcome EXCEPT !.exc = HTTPException(500, outcome.exc)]
    ELSE outcome

\* what the framework sends: 200 and the returned body, or the raised HTTPException
Respond(outcome) ==
    IF outcome.kind = "return"
    THEN [status |-> 200, body |-> outcome.body, calls |-> outcome.calls]
    ELSE [status |-> outcome.exc.status_code, detail |-> outcome.exc.detail,
          calls |-> outcome.calls]

\* summarizer.summarize(text) without max_length
DefaultMaxLength == 150

\* POST /translate
translate_text(request, gt, net) ==
    ExceptException(
        IF Strip(request.text) = <<>>
        THEN [kind |-> "raise", exc |-> HTTPException(400, <<"T","e","x","t"," ","c","a","n","n","o","t"," ","b","e"," ","e","m","p",
        "t","y">>),
              calls |-> <<>>]
        ELSE LET translated == TranslatorTranslate(gt, request.text, net.online)
                 calls == <<[service |-> "translate", text |-> request.text]>>
             IN  IF translated.kind = "raise"
                 THEN [kind |-> "raise", exc |-> ServiceError(translated.msg), calls |-> calls]
                 ELSE [kind |-> "return",
                       body |-> [original_text |-> request.text,
                                 translated_text |-> translated.value,
                                 source_lang |-> "gu", target_lang |-> "en"],
                       calls |-> calls])

\* POST /summarize; compression_ratio is kept as the pair it is the quotient of
summarize_text(request, gt, net) ==
    ExceptException(
        IF Strip(request.text) = <<>>
        THEN [kind |-> "raise", exc |-> HTTPException(400, <<"T","e","x","t"," ","c","a","n","n","o","t"," ","b","e"," ","e","m","p",
        "t","y">>),
              calls |-> <<>>]
        ELSE LET summary == Summarize(request.text, request.max_length).result
             IN  [kind |-> "return",
                  body |-> [original_text |-> request.text, summary |-> summary,
                            compression_ratio |-> <<Len(summary), Len(request.text)>>],
                  calls |-> <<[service |-> "summarize", text |-> request.text,
                               max_length |-> request.max_length]>>])

\* (a choice that always summarizes the original text)
TextToSummarizeOriginal(result, text) == text

\* text_to_summarize = result.get("translated_text", text)
TextToSummarize(result, text) ==
    IF "translated_text" \in DOMAIN result THEN result["translated_text"] ELSE text

\* result["summary"] = summarizer.summarize(text_to_summarize), and return result
ProcessSummarizeStage(request, text, result, calls) ==
    IF request.summarize
    THEN CHOOSE outcome \in
            {[kind |-> "return",
              body |-> result @@ "summary" :> Summarize(t, DefaultMaxLength).result,
              calls |-> Append(calls, [service |-> "summarize", text |-> t,
                                       max_length |-> DefaultMaxLength])] :
                t \in {TextToSummarize(result, text)}} : TRUE
    ELSE [kind |-> "return", body |-> result, calls |-> calls]

\* result["translated_text"] = translator.translate(text), then the summarize stage
ProcessTranslateStage(request, gt, net, text, calls) ==
    IF request.translate
    THEN CHOOSE outcome \in
            {IF translated.kind = "raise"
             THEN [kind |-> "raise", exc |-> ServiceError(translated.msg),
                   calls |-> Append(calls, [service |-> "translate", text |-> text])]
             ELSE ProcessSummarizeStage(request, text,
                      "original_text" :> text @@ "translated_text" :> translated.value,
                      Append(calls, [service |-> "translate", text |-> text])) :
                translated \in {TranslatorTranslate(gt, text, net.online)}} : TRUE
    ELSE ProcessSummarizeStage(request, text, "original_text" :> text, calls)

\* the handler from the empty-text test on, text being the supplied or extracted text
ProcessText(request, gt, net, text, calls) ==
    IF Strip(text) = <<>>
    THEN [kind |-> "raise", exc |-> HTTPException(400, <<"N","o"," ","c","o","n","t","e","n","t"," ","t","o"," ","p","r","o","c",
        "e","s","s">>),
          calls |-> calls]
    ELSE ProcessTranslateStage(request, gt, net, text, calls)

\* POST /process.  (A value bound by  x \in {e}  is computed once.)
process_content(request, gt, net) ==
    ExceptException(
        IF request.inputType = <<"u","r","l">>
        THEN CHOOSE outcome \in
                {ProcessText(request, gt, net, text,
                             <<[service |-> "extract", url |-> request.content]>>) :
                    text \in {extract(request.content, net.article, net.page)}} : TRUE
        ELSE ProcessText(request, gt, net, request.content, <<>>))

---------------------------------------------------------------------------
(* Requests and library outcomes.                                          *)

GujaratiText == <<"u0A86","u0A9C","u0AC7"," ","u0AB8","u0AAE","u0ABE","u0A9A","u0ABE","u0AB0">>
ArticleText == <<"T","h","e"," ","c","i","t","y"," ","c","o","u","n","c","i","l"," ","m",
        "e","t"," ","o","n"," ","M","o","n","d","a","y"," ","t","o"," ","d","i",
        "s","c","u","s","s"," ","t","h","e"," ","n","e","w"," ","w","a","t","e",
        "r"," ","p","l","a","n","."," ">>
PublisherUrl == <<"h","t","t","p","s",":","/","/","w","w","w",".","d","i","v","y","a","b",
        "h","a","s","k","a","r",".","c","o",".","i","n","/","l","o","c","a","l",
        "/","n","e","w","s">>
OtherUrl == <<"h","t","t","p","s",":","/","/","e","x","a","m","p","l","e",".","c","o",
        "m","/","n","e","w","s","/","t","o","d","a","y">>
OtherUrlNamingPublisher == <<"h","t","t","p","s",":","/","/","e","x","a","m","p","l","e",".","c","o",
        "m","/","?","f","r","o","m","=","d","i","v","y","a","b","h","a","s","k",
        "a","r">>

RequestTexts == {<<>>, <<" "," ","\n">>, GujaratiText, ArticleText}
Urls == {PublisherUrl, OtherUrl, OtherUrlNamingPublisher}

TranslateRequests == {[endpoint |-> "translate", text |-> t] : t \in RequestTexts}

SummarizeRequests ==
    {[endpoint |-> "summarize", text |-> t, max_length |-> m] :
        t \in RequestTexts, m \in {12, DefaultMaxLength}}

\* inputType is a free str; only "url" is tested for
InputTypes == {<<"t","e","x","t">>, <<"u","r","l">>, <<"U","R","L">>}

ProcessRequests ==
    {[endpoint |-> "process", content |-> c, inputType |-> it, translate |-> tl,
      summarize |-> su] :
        c \in RequestTexts \cup Urls, it \in InputTypes,
        tl \in BOOLEAN, su \in BOOLEAN}

\* what self.gt.translate may do
OnlineOutcomes == {Raise(<<"c","o","n","n","e","c","t","i","o","n"," ","r","e","f","u","s","e","d">>), Return(<<"T","o","d","a","y"," ","n","e","w","s">>)}

\* what newspaper's Article.download and parse may do (the value is article.text)
ArticleOutcomes == {Raise(<<"d","o","w","n","l","o","a","d"," ","f","a","i","l","e","d">>), Return(<<>>), Return(ArticleText)}

\* what requests.get may do (the value is the text the selectors take from the page)
PageOutcomes == {Raise(<<"t","i","m","e","d"," ","o","u","t">>), Return(<<>>), Return(<<" ","\n">>), Return(ArticleText)}

LibraryOutcomes ==
    {[online |-> o, article |-> a, page |-> p] :
        o \in OnlineOutcomes, a \in ArticleOutcomes, p \in PageOutcomes}

Init ==
    /\ rq \in {[pc |-> "received", request |-> r] :
                  r \in TranslateRequests \cup SummarizeRequests \cup ProcessRequests}
    /\ translator \in {[gt |-> g] : g \in BOOLEAN}
    /\ sm = Idle /\ cl = Idle /\ tr = Idle
    /\ db = init_db /\ dbc = Idle /\ ex = Idle /\ sv = Idle /\ reqs = <<>>

Responded(request, net, outcome) ==
    [pc |-> "responded", request |-> request, net |-> net, response |-> Respond(outcome)]

\* the /translate handler runs to its response
PostTranslate ==
    /\ rq.pc = "received" /\ rq.request.endpoint = "translate"
    /\ \E net \in LibraryOutcomes :
          rq' = Responded(rq.request, net, translate_text(rq.request, translator.gt, net))
    /\ UNCHANGED <<sm, cl, tr, translator, db, dbc, ex, sv, reqs>>

\* the /summarize handler runs to its response
PostSummarize ==
    /\ rq.pc = "received" /\ rq.request.endpoint = "summarize"
    /\ \E net \in LibraryOutcomes :
          rq' = Responded(rq.request, net, summarize_text(rq.request, translator.gt, net))
    /\ UNCHANGED <<sm, cl, tr, translator, db, dbc, ex, sv, reqs>>

\* the /process handler runs to its response
PostProcess ==
    /\ rq.pc = "received" /\ rq.request.endpoint = "process"
    /\ \E net \in LibraryOutcomes :
          rq' = Responded(rq.request, net, process_content(rq.request, translator.gt, net))
    /\ UNCHANGED <<sm, cl, tr, translator, db, dbc, ex, sv, reqs>>

Next == PostTranslate \/ PostSummarize \/ PostProcess

Spec == Init /\ [][Next]_vars

---------------------------------------------------------------------------
(* Properties of the request router.                                        *)

Answered(endpoints) == rq.pc = "responded" /\ rq.request.endpoint \in endpoints

Blank(text) == Strip(text) = <<>>

Services(calls) == [i \in DOMAIN calls |-> calls[i].service]

Called(service) == \E i \in DOMAIN rq.response.calls : rq.response.calls[i].service = service

\* C1 (as stated): a /translate or /summarize request whose text is empty or only
\* whitespace is answered with status 400, and neither the translator nor the
\* summarizer is called.
C1_BlankTextIs400 ==
    Answered({"translate", "summarize"}) /\ Blank(rq.request.text)
        => /\ rq.response.status = 400
           /\ rq.response.calls = <<>>

\* the text /process goes on with: the supplied content, or what the extractor returns
TextToProcess ==
    IF rq.request.inputType = <<"u","r","l">>
    THEN extract(rq.request.content, rq.net.article, rq.net.page)
    ELSE rq.request.content

\* C2 (as stated): a /process request whose text to process (the content, or the
\* extracted text when inputType is "url") is empty or only whitespace is answered
\* with status 400, and no translation or summarization stage is run.
C2_BlankProcessTextIs400 ==
    Answered({"process"}) /\ Blank(TextToProcess)
        => /\ rq.response.status = 400
           /\ ~Called("translate") /\ ~Called("summarize")

StartsWith(s, prefix) == Len(s) >= Len(prefix) /\ SubSeq(s, 1, Len(prefix)) = prefix

\* every library call the extraction of the request's URL makes has raised
ExtractionLibraryFailed ==
    /\ rq.request.inputType = <<"u","r","l">>
    /\ rq.net.page.kind = "raise"
    /\ \/ is_divya_bhaskar(rq.request.content)
       \/ rq.net.article.kind = "raise"

\* the translation stage ran and its library call has raised
TranslationLibraryFailed ==
    /\ Called("translate")
    /\ translator.gt /\ rq.net.online.kind = "raise"

ExtractionPlaceholders == {FailedDivyaBhaskar, ExtractionFailed}

RemainingStagesRan ==
    /\ rq.request.translate =>
          Called("translate") /\ "translated_text" \in DOMAIN rq.response.body
    /\ rq.request.summarize =>
          Called("summarize") /\ "summary" \in DOMAIN rq.response.body

\* C3: in /process, when the library call of the extraction stage or of the translation
\* stage raises, the response is still a 200, the field of the failed stage holds a
\* placeholder string (the extraction's failure message in original_text, the tagged
\* transliteration in translated_text), and every remaining enabled stage still runs.
C3_LibraryFailureDegradesToPlaceholder ==
    /\ Answered({"process"}) /\ ExtractionLibraryFailed
          => /\ rq.response.status = 200
             /\ \E prefix \in ExtractionPlaceholders :
                   rq.response.body["original_text"] = prefix \o rq.net.page.msg
             /\ RemainingStagesRan
    /\ Answered({"process"}) /\ TranslationLibraryFailed
          => /\ rq.response.status = 200
             /\ StartsWith(rq.response.body["translated_text"], TransliteratedTag)
             /\ RemainingStagesRan

\* extraction and translation have both failed in a request that also summarizes
C3_Witness ==
    /\ Answered({"process"})
    /\ ExtractionLibraryFailed /\ TranslationLibraryFailed
    /\ rq.request.summarize
    /\ rq.response.status = 200
    /\ Services(rq.response.calls) = <<"extract", "translate", "summarize">>

StageRank(service) ==
    CASE service = "extract" -> 1
      [] service = "translate" -> 2
      [] service = "summarize" -> 3

SummaryOf(text) == Summarize(text, DefaultMaxLength).result

\* C4: in a successful /process request the stages run in the order extract, translate,
\* summarize, each at most once; extraction runs iff inputType is "url", translation
\* iff translate, summarization iff summarize; the response holds translated_text iff
\* translate, summary iff summarize, and always original_text (the supplied or the
\* extracted text); the summary is computed from the translated text when both flags
\* are set and from the original text when only summarize is set.
C4_StagesInOrderAndToggled ==
    Answered({"process"}) /\ rq.response.status = 200
        => LET calls == rq.response.calls
               body == rq.response.body
           IN  /\ \A i, j \in DOMAIN calls :
                     i < j => StageRank(calls[i].service) < StageRank(calls[j].service)
               /\ Called("extract") <=> rq.request.inputType = <<"u","r","l">>
               /\ Called("translate") <=> rq.request.translate
               /\ Called("summarize") <=> rq.request.summarize
               /\ "original_text" \in DOMAIN body
               /\ body["original_text"] = TextToProcess
               /\ "translated_text" \in DOMAIN body <=> rq.request.translate
               /\ "summary" \in DOMAIN body <=> rq.request.summarize
               /\ rq.request.translate /\ rq.request.summarize
                     => body["summary"] = SummaryOf(body["translated_text"])
               /\ ~rq.request.translate /\ rq.request.summarize
                     => body["summary"] = SummaryOf(body["original_text"])

\* all three stages have run, and the translated text is not the original
C4_Witness ==
    /\ Answered({"process"}) /\ rq.response.status = 200
    /\ Services(rq.response.calls) = <<"extract", "translate", "summarize">>
    /\ rq.response.body["translated_text"] # rq.response.body["original_text"]
    /\ SummaryOf(rq.response.body["translated_text"])
          # SummaryOf(rq.response.body["original_text"])
    /\ rq.response.body["summary"] = SummaryOf(rq.response.body["translated_text"])

---------------------------------------------------------------------------
(* Translator.translate called on its own.                                 *)

BlankTexts == {<<>>, <<" ","\n">>}

TranslateCallInit ==
    /\ tr \in {[pc |-> "call", text |-> t] : t \in TranslateTexts \cup BlankTexts}
    /\ translator \in {[gt |-> g] : g \in BOOLEAN}
    /\ sm = Idle /\ cl = Idle /\ rq = Idle
    /\ db = init_db /\ dbc = Idle /\ ex = Idle /\ sv = Idle /\ reqs = <<>>

\* translator.translate(text) runs to its end; online is what the API call does if made
TranslatorTranslateCall ==
    /\ tr.pc = "call"
    /\ \E online \in OnlineOutcomes :
          tr' = [pc |-> "translated", text |-> tr.text, online |-> online,
                 calls |-> TranslateCalls(translator.gt, tr.text, online),
                 outcome |-> TranslatorTranslate(translator.gt, tr.text, online)]
    /\ UNCHANGED <<sm, cl, rq, translator, db, dbc, ex, sv, reqs>>

TranslateCallNext == TranslatorTranslateCall

SpecTranslate == TranslateCallInit /\ [][TranslateCallNext]_vars

\* the API was called by translate and the call raised
ApiCallFailed ==
    /\ tr.pc = "translated"
    /\ ~Blank(tr.text)
    /\ translator.gt /\ tr.online.kind = "raise"

\* value is text behind a non-empty prefix
PrefixedOriginal(value, text) == Len(value) > Len(text) /\ EndsWith(value, text)

\* C11 (as stated): Translator.translate never raises, and when the API call fails at
\* call time it returns the original input text behind an explanatory prefix.
C11_ApiFailureReturnsPrefixedOriginal ==
    /\ tr.pc = "translated" => tr.outcome.kind = "return"
    /\ ApiCallFailed => PrefixedOriginal(tr.outcome.value, tr.text)

\* C11 (amended): Translator.translate never raises, and when the API call fails at call
\* time it returns the offline rendering of the text: the tag "[Transliterated] "
\* followed by the words of the text, each rendered through the word dictionary or
\* character by character, joined by single spaces.
C11_ApiFailureReturnsTransliteration ==
    /\ tr.pc = "translated" => tr.outcome.kind = "return"
    /\ ApiCallFailed =>
          LET words == Words(tr.text)
          IN  tr.outcome.value =
                 TransliteratedTag \o Join([k \in DOMAIN words |-> TranslateWord(words[k])], <<" ">>)

\* the API call failed on a text the offline rendering changes
C11_Witness ==
    /\ ApiCallFailed
    /\ tr.outcome.kind = "return"
    /\ StartsWith(tr.outcome.value, TransliteratedTag)
    /\ ~PrefixedOriginal(tr.outcome.value, tr.text)

---------------------------------------------------------------------------
(* The router and the activity log.                                        *)

Completed == rq.pc = "responded" /\ rq.response.status = 200

\* C12 (as stated): a completed request that performed a translation (/translate, or
\* /process with translate) has appended exactly one record to the translations table
\* of the activity log, and one that performed a summarization (/summarize, or /process
\* with summarize) exactly one record to the summaries table.
C12_CompletedRequestIsLogged ==
    Completed
        => /\ Called("translate") => Len(db.translations) = Len(init_db.translations) + 1
           /\ Called("summarize") => Len(db.summaries) = Len(init_db.summaries) + 1

---------------------------------------------------------------------------
(* The activity log (models/database.py, class Database).  A table is the   *)
(* sequence of its rows in insertion order; a float is kept as the integer  *)
(* or the quotient <<sum, count>> it stands for.                            *)

\* Python's None, SQL's NULL: not a str, since no character is "None"
None == <<"None">>

\* INSERT INTO translations ...: id is AUTOINCREMENT, timestamp is CURRENT_TIMESTAMP
log_translation(d, original_text, translated_text, source_lang, target_lang, processing_time, url_source) ==
    [d EXCEPT !.translations = Append(@,
        [id |-> Len(d.translations) + 1,
         original_text |-> original_text, translated_text |-> translated_text,
         source_lang |-> source_lang, target_lang |-> target_lang,
         processing_time |-> processing_time, timestamp |-> d.now,
         url_source |-> url_source, text_length |-> Len(original_text)])]

\* (a log_summary that writes over the last summary of the same text)
log_summary_replacing(d, original_text, summary, compression_ratio, processing_time) ==
    IF d.summaries # <<>> /\ d.summaries[Len(d.summaries)].original_text = original_text
    THEN [d EXCEPT !.summaries[Len(d.summaries)].summary = summary]
    ELSE [d EXCEPT !.summaries = Append(@,
             [id |-> Len(d.summaries) + 1,
              original_text |-> original_text, summary |-> summary,
              compression_ratio |-> compression_ratio, processing_time |-> processing_time,
              timestamp |-> d.now,
              original_length |-> Len(original_text), summary_length |-> Len(summary)])]

\* INSERT INTO summaries ...
log_summary(d, original_text, summary, compression_ratio, processing_time) ==
    [d EXCEPT !.summaries = Append(@,
        [id |-> Len(d.summaries) + 1,
         original_text |-> original_text, summary |-> summary,
         compression_ratio |-> compression_ratio, processing_time |-> processing_time,
         timestamp |-> d.now,
         original_length |-> Len(original_text), summary_length |-> Len(summary)])]

RECURSIVE SumField(_, _)
SumField(table, field) ==
    IF table = <<>> THEN 0 ELSE table[1][field] + SumField(Tail(table), field)

\* SELECT AVG(field) FROM table, then  or 0 : NULL for an empty table becomes 0
Avg(table, field) == IF table = <<>> THEN 0 ELSE <<SumField(table, field), Len(table)>>

\* rows of an ORDER BY key DESC LIMIT k: SQL fixes no order among equal keys, so every
\* order that is non-increasing in the key is a possible one
RECURSIVE OrderByDescLimit(_, _, _)
OrderByDescLimit(items, key, k) ==
    IF k = 0 \/ items = {} THEN {<<>>}
    ELSE LET first == {g \in items : \A h \in items : key[h] <= key[g]}
         IN  UNION {{<<g>> \o rest : rest \in OrderByDescLimit(items \ {g}, key, k - 1)} :
                       g \in first}

\* LIMIT 5 of the most common sources query
MaxSources == 5

\* GROUP BY url_source over the rows WHERE url_source IS NOT NULL, with COUNT(*)
SourceGroups(table) == {table[i].url_source : i \in DOMAIN table} \ {None}

SourceCount(table) ==
    [g \in SourceGroups(table) |-> Cardinality({i \in DOMAIN table : table[i].url_source = g})]

\* [row[0] for row in cursor.fetchall() if row[0]]
KeepTruthySources(rows) == SelectSeq(rows, LAMBDA g : g # <<>>)

\* the values the most common sources query and the list built from it can produce
MostCommonSources(table) ==
    {KeepTruthySources(rows) :
        rows \in OrderByDescLimit(SourceGroups(table), SourceCount(table), MaxSources)}

\* Database.get_stats(): the dict returned, for one result of the sources query
get_stats(d, common_sources) ==
    [total_articles_processed |-> Len(d.translations),
     total_translations |-> Len(d.translations),
     total_summaries |-> Len(d.summaries),
     average_summary_length |-> Avg(d.summaries, "summary_length"),
     average_processing_time |->
         <<Avg(d.translations, "processing_time"), Avg(d.summaries, "processing_time")>>,
     most_common_sources |-> common_sources]

\* row[k][:100] + "..." if len(row[k]) > 100 else row[k]
MaxActivityChars == 100

Shorten(text) ==
    IF Len(text) > MaxActivityChars THEN Take(text, MaxActivityChars) \o Ellipsis ELSE text

\* one dict of get_recent_activity's results
ActivityEntry(row) ==
    [type |-> "translation",
     original_text |-> Shorten(row.original_text),
     processed_text |-> Shorten(row.translated_text),
     processing_time |-> row.processing_time,
     timestamp |-> row.timestamp,
     url_source |-> row.url_source]

\* Database.get_recent_activity(limit): SELECT ... FROM translations ORDER BY timestamp
\* DESC LIMIT ?  (a negative LIMIT is no limit); the set of lists it can return
get_recent_activity(d, limit) ==
    LET table == d.translations
        k == IF limit < 0 THEN Len(table) ELSE limit
        stamp == [i \in DOMAIN table |-> table[i].timestamp]
    IN  {[j \in DOMAIN rows |-> ActivityEntry(table[rows[j]])] :
            rows \in OrderByDescLimit(DOMAIN table, stamp, k)}

\* calls made on one Database before the model stops logging
MaxLogCalls == 3

LongText == ArticleText \o ArticleText

\* arguments of log_translation: the texts, the processing time and the source
TranslationArgs ==
    {[original_text |-> GujaratiText, translated_text |-> <<"T","o","d","a","y"," ","n","e","w","s">>,
      processing_time |-> 2, url_source |-> u] : u \in {None, <<>>, PublisherUrl}}
    \cup {[original_text |-> LongText, translated_text |-> LongText,
           processing_time |-> 5, url_source |-> None]}

\* arguments of log_summary; compression_ratio is the pair it is the quotient of
SummaryArgs ==
    {[original_text |-> ArticleText, summary |-> s, processing_time |-> 3] :
        s \in {<<"T","h","e"," ","c","i","t","y"," ","c","o","u","n","c","i","l"," ","m",
        "e","t",".">>, <<>>}}

ActivityLimits == {0, 1, 2, 10}

NoLogCalls == [log_translation |-> 0, log_summary |-> 0]

DatabaseInit ==
    /\ db = init_db
    /\ dbc = [pc |-> "init_db", calls |-> NoLogCalls]
    /\ sm = Idle /\ cl = Idle /\ tr = Idle /\ rq = Idle /\ translator = NoTranslator
    /\ ex = Idle /\ sv = Idle /\ reqs = <<>>

\* the database clock as the next statement finds it: the same second or a later one
Tick(d) == {[d EXCEPT !.now = t] : t \in {d.now, d.now + 1}}

LogCallsMade == dbc.calls.log_translation + dbc.calls.log_summary

\* db.log_translation(...)
LogTranslation ==
    /\ LogCallsMade < MaxLogCalls
    /\ \E a \in TranslationArgs, d \in Tick(db) :
          db' = log_translation(d, a.original_text, a.translated_text, "gu", "en",
                                a.processing_time, a.url_source)
    /\ dbc' = [pc |-> "log_translation",
               calls |-> [dbc.calls EXCEPT !.log_translation = @ + 1]]
    /\ UNCHANGED <<sm, cl, tr, rq, translator, ex, sv, reqs>>

\* db.log_summary(...)
LogSummary ==
    /\ LogCallsMade < MaxLogCalls
    /\ \E a \in SummaryArgs, d \in Tick(db) :
          db' = log_summary(d, a.original_text, a.summary,
                            <<Len(a.summary), Len(a.original_text)>>, a.processing_time)
    /\ dbc' = [pc |-> "log_summary",
               calls |-> [dbc.calls EXCEPT !.log_summary = @ + 1]]
    /\ UNCHANGED <<sm, cl, tr, rq, translator, ex, sv, reqs>>

\* db.get_stats()
GetStats ==
    /\ \E common_sources \in MostCommonSources(db.translations) :
          dbc' = [pc |-> "get_stats", calls |-> dbc.calls,
                  ret |-> get_stats(db, common_sources)]
    /\ UNCHANGED <<db, sm, cl, tr, rq, translator, ex, sv, reqs>>

\* db.get_recent_activity(limit)
GetRecentActivity ==
    /\ \E limit \in ActivityLimits :
          \E results \in get_recent_activity(db, limit) :
              dbc' = [pc |-> "get_recent_activity", calls |-> dbc.calls,
                      limit |-> limit, ret |-> results]
    /\ UNCHANGED <<db, sm, cl, tr, rq, translator, ex, sv, reqs>>

DatabaseNext == LogTranslation \/ LogSummary \/ GetStats \/ GetRecentActivity

SpecDatabase == DatabaseInit /\ [][DatabaseNext]_vars

---------------------------------------------------------------------------
(* Claims about the activity log.                                          *)

IsPrefix(s, t) == Len(s) <= Len(t) /\ SubSeq(t, 1, Len(s)) = s

\* what one call may do to the tables
LogStepKeepsRecords ==
    /\ IsPrefix(db.translations, db'.translations)
    /\ IsPrefix(db.summaries, db'.summaries)
    /\ db'.app_stats = db.app_stats
    /\ dbc'.pc = "log_translation" =>
          /\ Len(db'.translations) = Len(db.translations) + 1
          /\ db'.summaries = db.summaries
    /\ dbc'.pc = "log_summary" =>
          /\ Len(db'.summaries) = Len(db.summaries) + 1
          /\ db'.translations = db.translations
    /\ dbc'.pc \in {"get_stats", "get_recent_activity"} =>
          /\ db'.translations = db.translations
          /\ db'.summaries = db.summaries

StatsCountLogCalls ==
    dbc.pc = "get_stats" =>
        /\ dbc.ret.total_translations = dbc.calls.log_translation
        /\ dbc.ret.total_summaries = dbc.calls.log_summary

\* C13: the activity log is append-only: over any sequence of log_translation,
\* log_summary, get_stats and get_recent_activity calls every record written earlier
\* stays in place unchanged, a log call adds exactly one record to its own table and
\* none to another, the two queries change no table, and get_stats reports
\* total_translations and total_summaries equal to the numbers of log_translation and
\* log_summary calls made so far.
C13_LogIsAppendOnly == [][LogStepKeepsRecords]_vars /\ []StatsCountLogCalls

\* get_stats is called after a translation and two summaries of one text were logged
C13_Witness ==
    /\ dbc.pc = "get_stats"
    /\ dbc.calls = [log_translation |-> 1, log_summary |-> 2]
    /\ dbc.ret.total_translations = 1 /\ dbc.ret.total_summaries = 2
    /\ db.summaries[1].summary # db.summaries[2].summary

---------------------------------------------------------------------------
(* get_stats on logs with many sources.                                    *)

\* translations logged with one source before get_stats is called
MaxSourceCount == 2

StatSources ==
    << None, <<>>, PublisherUrl, OtherUrl, OtherUrlNamingPublisher,
       <<"h","t","t","p","s",":","/","/","a",".","e","x","a","m","p","l","e","/",
        "1">>, <<"h","t","t","p","s",":","/","/","b",".","e","x","a","m","p","l","e","/",
        "2">>, <<"h","t","t","p","s",":","/","/","c",".","e","x","a","m","p","l","e","/",
        "3">> >>

\* how many translations each source gets: up to MaxSourceCount for the first four
\* sources, at most one for the others
SourceCounts ==
    {c \in [DOMAIN StatSources -> 0..MaxSourceCount] : \A k \in DOMAIN StatSources : k > 4 => c[k] <= 1}

RECURSIVE LogSources(_, _, _)
\* log_translation called c[k] times with source k, for k = from, from + 1, ...
LogSources(d, c, from) ==
    IF from > Len(StatSources) THEN d
    ELSE IF c[from] = 0 THEN LogSources(d, c, from + 1)
    ELSE LogSources(log_translation(d, GujaratiText, <<"T","o","d","a","y"," ","n","e","w","s">>, "gu", "en", 2,
                                    StatSources[from]),
                    [c EXCEPT ![from] = @ - 1], from)

StatsInit ==
    /\ db \in {LogSources(init_db, c, 1) : c \in SourceCounts}
    /\ dbc = [pc |-> "log_translation",
              calls |-> [log_translation |-> Len(db.translations), log_summary |-> 0]]
    /\ sm = Idle /\ cl = Idle /\ tr = Idle /\ rq = Idle /\ translator = NoTranslator
    /\ ex = Idle /\ sv = Idle /\ reqs = <<>>

\* db.get_stats(), called once on the log
GetStatsOnce == dbc.pc # "get_stats" /\ GetStats

StatsNext == GetStatsOnce

SpecStats == StatsInit /\ [][StatsNext]_vars

\* translations that carry the source
Carrying(source) ==
    Cardinality({i \in DOMAIN db.translations : db.translations[i].url_source = source})

\* the distinct non-empty sources logged
LoggedSources == SourceGroups(db.translations) \ {<<>>}

\* C14 (as stated): most_common_sources is the top five sources by frequency: distinct
\* non-empty url_source values in non-increasing order of the number of translations
\* that carry them, no omitted source more frequent than a listed one, and exactly five
\* entries whenever at least five distinct non-empty sources have been logged.
C14_TopFiveSources ==
    dbc.pc = "get_stats" =>
        LET listed == dbc.ret.most_common_sources
        IN  /\ \A i \in DOMAIN listed : listed[i] \in LoggedSources
            /\ \A i, j \in DOMAIN listed : i < j =>
                  /\ listed[i] # listed[j]
                  /\ Carrying(listed[i]) >= Carrying(listed[j])
            /\ \A s \in LoggedSources :
                  (\A i \in DOMAIN listed : listed[i] # s) =>
                      \A i \in DOMAIN listed : Carrying(s) <= Carrying(listed[i])
            /\ Cardinality(LoggedSources) >= MaxSources => Len(listed) = MaxSources

---------------------------------------------------------------------------
(* URLExtractor.extract called on its own.                                 *)

RECURSIVE Repeat(_, _)
Repeat(s, n) == IF n = 0 THEN <<>> ELSE s \o Repeat(s, n - 1)

\* an article of 8 sentences of 655 characters, 5248 characters with the separators
LongArticleText ==
    Repeat(Repeat(<<"T","h","e"," ","c","i","t","y"," ","c","o","u","n","c","i","l"," ","m",
        "e","t"," ","o","n"," ","M","o","n","d","a","y"," ","t","o"," ","d","i",
        "s","c","u","s","s"," ","t","h","e"," ","n","e","w"," ","w","a","t","e",
        "r"," ","p","l","a","n"," ","a","n","d"," ">>, 10)
               \o <<"m","o","r","e","."," ">>, 8)

ShortPageText == <<"T","o","o"," ","s","h","o","r","t"," ","t","o"," ","k","e","e","p",".",
        " ">>

ExtractUrls ==
    Urls \cup {<<"H","T","T","P","S",":","/","/","W","W","W",".","D","I","V","Y","A","B",
        "H","A","S","K","A","R",".","C","O",".","I","N","/">>, <<"h","t","t","p","s",":","/","/","e","x","a","m","p","l","e",".","c","o",
        "m","/","d","i","v","y","a","b","h","a","s","k","a","r","/","s","t","o",
        "r","y">>,
               <<"h","t","t","p","s",":","/","/","b","h","a","s","k","a","r",".","e","x",
        "a","m","p","l","e",".","o","r","g","/">>}

\* what newspaper's Article.download and parse may do (the value is article.text)
ExtractArticleOutcomes == ArticleOutcomes \cup {Return(LongArticleText), Return(ShortPageText)}

\* what requests.get may do (the value is the text the selectors take from the page)
ExtractPageOutcomes == PageOutcomes \cup {Return(LongArticleText), Return(ShortPageText)}

ExtractInit ==
    /\ ex \in {[pc |-> "call", url |-> u] : u \in ExtractUrls}
    /\ sm = Idle /\ cl = Idle /\ tr = Idle /\ rq = Idle /\ translator = NoTranslator
    /\ db = init_db /\ dbc = Idle /\ sv = Idle /\ reqs = <<>>

\* if self.is_divya_bhaskar(url): return self.extract_divya_bhaskar_content(url)
ExtractPath(url) == IF is_divya_bhaskar(url) THEN "extract_divya_bhaskar_content" ELSE "general"

\* (an extract that fetches the page with requests whatever the library produced)
ExtractCallsBoth(url, article, page) ==
    IF is_divya_bhaskar(url) THEN <<"requests.get">>
    ELSE <<"Article.download", "requests.get">>

\* the sources extract(url) tries, in order: on the general path the library first
\* ("Article.download" stands for its try block: import, download, parse), then
\* requests.get unless the library produced text
ExtractCalls(url, article, page) ==
    IF is_divya_bhaskar(url) THEN <<"requests.get">>
    ELSE IF article.kind = "return" /\ article.value # <<>> THEN <<"Article.download">>
    ELSE <<"Article.download", "requests.get">>

\* extractor.extract(url) runs to its return
ExtractCall ==
    /\ ex.pc = "call"
    /\ \E article \in ExtractArticleOutcomes, page \in ExtractPageOutcomes :
          ex' = [pc |-> "done", url |-> ex.url, article |-> article, page |-> page,
                 path |-> ExtractPath(ex.url),
                 calls |-> ExtractCalls(ex.url, article, page),
                 ret |-> extract(ex.url, article, page)]
    /\ UNCHANGED <<sm, cl, tr, rq, translator, db, dbc, sv, reqs>>

ExtractNext == ExtractCall

SpecExtract == ExtractInit /\ [][ExtractNext]_vars

\* first position at or after p where one of the characters stands, or Len(s) + 1
FirstOf(s, chars, p) ==
    LET at == {i \in p..Len(s) : s[i] \in chars}
    IN  IF at = {} THEN Len(s) + 1 ELSE CHOOSE i \in at : \A j \in at : i <= j

\* the host part of a URL: what stands between "://" and the next "/", "?" or "#"
Hostname(url) ==
    LET starts == {i \in 1..Len(url) : MatchAt(url, <<":","/","/">>, i)}
        from == IF starts = {} THEN 1 ELSE (CHOOSE i \in starts : \A j \in starts : i <= j) + 3
    IN  SubSeq(url, from, FirstOf(url, {"/", "?", "#"}, from) - 1)

PublisherName == <<"d","i","v","y","a","b","h","a","s","k","a","r">>

\* C15 (as stated): extract takes the publisher path exactly when the hostname of the
\* URL contains the publisher's name; a URL that has the name only in its path or query
\* string is handled by the general path.
C15_PublisherPathIffHostnameMatches ==
    ex.pc = "done" =>
        (ex.path = "extract_divya_bhaskar_content"
            <=> Contains(Lower(Hostname(ex.url)), PublisherName))

\* C16 (as stated): for a URL not matched as the publisher the text extract returns is at
\* most 5000 characters long, whichever of the two paths (the article-extraction
\* library, the BeautifulSoup fallback) produced it.
C16_GeneralPathCappedAt5000 ==
    ex.pc = "done" /\ ex.path = "general" => Len(ex.ret) <= MaxExtractChars

---------------------------------------------------------------------------
(* Requests handled concurrently.  The handlers are coroutines without an   *)
(* await, so the event loop runs each one to its end; the model lets the    *)
(* stages of /process of different requests interleave, which includes the  *)
(* schedules of a server that hands requests to threads.                    *)

\* requests in flight at the same time
MaxRequests == 2

AllRaise == [online |-> Raise(<<"c","o","n","n","e","c","t","i","o","n"," ","r","e","f","u","s","e","d">>), article |-> Raise(<<"d","o","w","n","l","o","a","d"," ","f","a","i","l","e","d">>),
             page |-> Raise(<<"t","i","m","e","d"," ","o","u","t">>)]

AllReturn == [online |-> Return(<<"T","o","d","a","y"," ","n","e","w","s">>), article |-> Return(ArticleText),
              page |-> Return(ArticleText)]

\* a request together with what the libraries do when called for it
Arrivals ==
    {[request |-> [endpoint |-> "translate", text |-> GujaratiText], net |-> AllRaise],
     [request |-> [endpoint |-> "summarize", text |-> <<" "," ","\n">>, max_length |-> DefaultMaxLength],
      net |-> AllReturn],
     [request |-> [endpoint |-> "process", content |-> OtherUrl, inputType |-> <<"u","r","l">>,
                   translate |-> TRUE, summarize |-> TRUE], net |-> AllReturn],
     [request |-> [endpoint |-> "process", content |-> PublisherUrl, inputType |-> <<"u","r","l">>,
                   translate |-> TRUE, summarize |-> TRUE], net |-> AllRaise],
     [request |-> [endpoint |-> "process", content |-> GujaratiText, inputType |-> <<"t","e","x","t">>,
                   translate |-> FALSE, summarize |-> TRUE], net |-> AllReturn]}

\* a request as it enters its handler: text, result and calls are the handler's locals
Received(a) ==
    [pc |-> "received", request |-> a.request, net |-> a.net,
     text |-> <<>>, result |-> <<>>, calls |-> <<>>]

ConcurrentInit ==
    /\ reqs \in UNION {[1..n -> {Received(a) : a \in Arrivals}] : n \in 1..MaxRequests}
    /\ translator \in {[gt |-> g] : g \in BOOLEAN}
    /\ sm = Idle /\ cl = Idle /\ tr = Idle /\ rq = Idle
    /\ db = init_db /\ dbc = Idle /\ ex = Idle /\ sv = Idle

\* (a handler that keeps its text in a module-level variable, which the latest request
\* has written)
SharedText(rs, i) == rs[Len(rs)].text

\* the local variable text of the handler of request i
LocalText(rs, i) == rs[i].text

Finish(r, outcome) ==
    [pc |-> "responded", request |-> r.request, net |-> r.net,
     response |-> Respond(ExceptException(outcome))]

\* /translate and /summarize make one service call: the handler runs in one step
HandleTranslate(i) ==
    /\ reqs[i].pc = "received" /\ reqs[i].request.endpoint = "translate"
    /\ reqs' = [reqs EXCEPT ![i] =
                   [pc |-> "responded", request |-> @.request, net |-> @.net,
                    response |-> Respond(translate_text(@.request, translator.gt, @.net))]]
    /\ UNCHANGED <<sm, cl, tr, rq, translator, db, dbc, ex, sv>>

HandleSummarize(i) ==
    /\ reqs[i].pc = "received" /\ reqs[i].request.endpoint = "summarize"
    /\ reqs' = [reqs EXCEPT ![i] =
                   [pc |-> "responded", request |-> @.request, net |-> @.net,
                    response |-> Respond(summarize_text(@.request, translator.gt, @.net))]]
    /\ UNCHANGED <<sm, cl, tr, rq, translator, db, dbc, ex, sv>>

\* text = request.content, or text = extractor.extract(request.content)
ProcessExtract(i) ==
    /\ reqs[i].pc = "received" /\ reqs[i].request.endpoint = "process"
    /\ LET r == reqs[i]
       IN  reqs' = [reqs EXCEPT ![i] =
               IF r.request.inputType = <<"u","r","l">>
               THEN [r EXCEPT !.pc = "check",
                              !.text = extract(r.request.content, r.net.article, r.net.page),
                              !.calls = <<[service |-> "extract", url |-> r.request.content]>>]
               ELSE [r EXCEPT !.pc = "check", !.text = r.request.content]]
    /\ UNCHANGED <<sm, cl, tr, rq, translator, db, dbc, ex, sv>>

\* if not text.strip(): raise ...; result = {"original_text": text}
ProcessCheck(i) ==
    /\ reqs[i].pc = "check"
    /\ LET r == reqs[i]
           text == LocalText(reqs, i)
       IN  reqs' = [reqs EXCEPT ![i] =
               IF Strip(text) = <<>>
               THEN Finish(r, [kind |-> "raise", calls |-> r.calls,
                               exc |-> HTTPException(400, <<"N","o"," ","c","o","n","t","e","n","t"," ","t","o"," ","p","r","o","c",
        "e","s","s">>)])
               ELSE [r EXCEPT !.pc = "translate", !.result = "original_text" :> text]]
    /\ UNCHANGED <<sm, cl, tr, rq, translator, db, dbc, ex, sv>>

\* if request.translate: result["translated_text"] = translator.translate(text)
ProcessTranslate(i) ==
    /\ reqs[i].pc = "translate"
    /\ LET r == reqs[i]
           text == LocalText(reqs, i)
           translated == TranslatorTranslate(translator.gt, text, r.net.online)
           calls == Append(r.calls, [service |-> "translate", text |-> text])
       IN  reqs' = [reqs EXCEPT ![i] =
               IF ~r.request.translate THEN [r EXCEPT !.pc = "summarize"]
               ELSE IF translated.kind = "raise"
               THEN Finish(r, [kind |-> "raise", calls |-> calls,
                               exc |-> ServiceError(translated.msg)])
               ELSE [r EXCEPT !.pc = "summarize", !.calls = calls,
                              !.result = r.result @@ "translated_text" :> translated.value]]
    /\ UNCHANGED <<sm, cl, tr, rq, translator, db, dbc, ex, sv>>

\* if request.summarize: result["summary"] = ...; return result
ProcessSummarize(i) ==
    /\ reqs[i].pc = "summarize"
    /\ LET r == reqs[i]
       IN  reqs' = [reqs EXCEPT ![i] =
               Finish(r, ProcessSummarizeStage(r.request, LocalText(reqs, i), r.result, r.calls))]
    /\ UNCHANGED <<sm, cl, tr, rq, translator, db, dbc, ex, sv>>

ConcurrentNext ==
    \/ \E i \in DOMAIN reqs : HandleTranslate(i)
    \/ \E i \in DOMAIN reqs : HandleSummarize(i)
    \/ \E i \in DOMAIN reqs : ProcessExtract(i)
    \/ \E i \in DOMAIN reqs : ProcessCheck(i)
    \/ \E i \in DOMAIN reqs : ProcessTranslate(i)
    \/ \E i \in DOMAIN reqs : ProcessSummarize(i)

SpecConcurrent == ConcurrentInit /\ [][ConcurrentNext]_vars

\* the response the request gets when its handler runs alone, from start to end
HandledAlone(r) ==
    CASE r.request.endpoint = "translate" ->
            Respond(translate_text(r.request, translator.gt, r.net))
      [] r.request.endpoint = "summarize" ->
            Respond(summarize_text(r.request, translator.gt, r.net))
      [] r.request.endpoint = "process" ->
            Respond(process_content(r.request, translator.gt, r.net))

ResponsesAsAlone ==
    \A i \in DOMAIN reqs : reqs[i].pc = "responded" => reqs[i].response = HandledAlone(reqs[i])

\* C17: requests share no mutable state: in every interleaving of concurrent /translate,
\* /summarize and /process requests each response is the one the request would get if
\* handled alone, and the singletons are never modified after start-up.
C17_ConcurrentRequestsIndependent == []ResponsesAsAlone /\ [][translator' = translator]_vars

\* one /process request has been answered while another, on another text, is between
\* its stages
C17_Witness ==
    /\ Len(reqs) >= 2
    /\ \E i, j \in DOMAIN reqs :
          /\ reqs[i].pc = "responded" /\ reqs[i].request.endpoint = "process"
          /\ reqs[i].response.status = 200
          /\ reqs[j].pc = "translate" /\ reqs[j].request # reqs[i].request
          /\ reqs[j].text # reqs[i].response.body["original_text"]

---------------------------------------------------------------------------
(* services/summarization_service.py, class SummarizationService.  The     *)
(* model (a transformers pipeline) is a library: a call to it returns a    *)
(* summary text or raises.  processing_time, a difference of clock         *)
(* readings, is left out of the results; a ratio is kept as the pair       *)
(* <<numerator, denominator>> it is the quotient of.                       *)

\* " ".join(text.split()): the words of the text with single blanks between them
JoinSplit(text) == CollapseWhitespace(Strip(text))

\* " ".join(text.split()[:k]) for a text whose words are separated by single blanks
FirstWords(text, k) ==
    LET WordEnd(i) == ~IsSpace(text[i]) /\ (i = Len(text) \/ IsSpace(text[i + 1]))
        ends == SelectSeq(Indices(text), WordEnd)
    IN  IF k = 0 THEN <<>> ELSE IF Len(ends) > k THEN SubSeq(text, 1, ends[k]) ELSE text

\* len(text.split())
WordCount(text) ==
    LET WordEnd(i) == ~IsSpace(text[i]) /\ (i = Len(text) \/ IsSpace(text[i + 1]))
    IN  Len(SelectSeq(Indices(text), WordEnd))

\* max_input_length = 1024
max_input_length == 1024

\* SummarizationService._preprocess_text(text)
PreprocessText(text) ==
    LET joined == JoinSplit(text)
    IN  IF WordCount(joined) > max_input_length THEN FirstWords(joined, max_input_length)
        ELSE joined

\* str.upper() of one character
UpperChar(c) ==
    IF \E u \in DOMAIN LowerMap : LowerMap[u] = c
    THEN CHOOSE u \in DOMAIN LowerMap : LowerMap[u] = c
    ELSE c

\* SummarizationService._postprocess_text(text)
PostprocessText(text) ==
    LET joined == JoinSplit(text)
        capital == IF joined # <<>> /\ joined[1] \notin DOMAIN LowerMap
                   THEN <<UpperChar(joined[1])>> \o Tail(joined)
                   ELSE joined
    IN  IF capital # <<>> /\ capital[Len(capital)] \notin {".", "!", "?"}
        THEN capital \o <<".">>
        ELSE capital

\* (a maximum that is not halved)
AdjustedMaxLengthWhole(max_length, input_length) == Min(max_length, input_length)

\* adjusted_max_length = min(max_length, input_length // 2)
AdjustedMaxLength(max_length, input_length) == Min(max_length, input_length \div 2)

\* adjusted_min_length = min(min_length, adjusted_max_length // 2)
AdjustedMinLength(min_length, adjusted_max_length) == Min(min_length, adjusted_max_length \div 2)

ServiceUnavailable == <<"S","u","m","m","a","r","i","z","a","t","i","o","n"," ","s","e","r","v",
        "i","c","e"," ","u","n","a","v","a","i","l","a","b","l","e">>
SummarizationFailed == <<"S","u","m","m","a","r","i","z","a","t","i","o","n"," ","f","a","i","l",
        "e","d",":"," ">>

\* SummarizationService.summarize_text(text, max_length, min_length): loaded says whether
\* self.summarizer is set, model is what the pipeline does when called.  The value is
\* the dict returned, with the calls made to the pipeline beside it.
SummarizationServiceSummarizeText(loaded, text, max_length, min_length, model) ==
    IF ~loaded
    THEN [model_calls |-> <<>>,
          ret |-> [original_text |-> text, summary |-> ServiceUnavailable,
                   error |-> <<"M","o","d","e","l"," ","n","o","t"," ","l","o","a","d","e","d">>, compression_ratio |-> <<0, 1>>]]
    ELSE LET cleaned_text == PreprocessText(text)
             input_length == WordCount(cleaned_text)
             adjusted_max_length == AdjustedMaxLength(max_length, input_length)
             adjusted_min_length == AdjustedMinLength(min_length, adjusted_max_length)
             call == [text |-> cleaned_text, max_length |-> adjusted_max_length,
                      min_length |-> adjusted_min_length]
         IN  IF input_length < min_length
             THEN [model_calls |-> <<>>,
                   ret |-> [original_text |-> text, summary |-> cleaned_text,
                            compression_ratio |-> <<1, 1>>,
                            note |-> <<"T","e","x","t"," ","t","o","o"," ","s","h","o","r","t"," ","t","o"," ",
        "s","u","m","m","a","r","i","z","e"," ","e","f","f","e","c","t","i","v",
        "e","l","y">>]]
             ELSE IF model.kind = "raise"
             THEN [model_calls |-> <<call>>,
                   ret |-> [original_text |-> text, summary |-> SummarizationFailed \o model.msg,
                            error |-> model.msg, compression_ratio |-> <<0, 1>>]]
             ELSE LET original_length == WordCount(text)
                      summary_length == WordCount(model.value)
                  IN  [model_calls |-> <<call>>,
                       ret |-> [original_text |-> text,
                                summary |-> PostprocessText(model.value),
                                compression_ratio |->
                                    IF original_length > 0
                                    THEN <<summary_length, original_length>> ELSE <<0, 1>>,
                                original_length |-> original_length,
                                summary_length |-> summary_length]]

\* words in the short texts given to the service
MaxServiceWords == 6

\* n words with irregular whitespace between them
TextOfWords(n) == [i \in 1..(3 * n) |-> IF i % 3 = 1 THEN "a" ELSE IF i % 3 = 2 THEN " " ELSE "\n"]

ServiceTexts == {TextOfWords(n) : n \in 0..MaxServiceWords} \cup {TextOfWords(max_input_length + 6)}

ServiceMaxLengths == {0, 1, 2, 150, 1000}
ServiceMinLengths == {0, 1, 3, 50, 300}

\* what the pipeline may do when called
ModelOutcomes == {Raise(<<"C","U","D","A"," ","o","u","t"," ","o","f"," ","m","e","m","o","r","y">>), Return(<<"t","o","d","a","y"," "," ","n","e","w","s">>)}

ServiceInit ==
    /\ sv \in {[pc |-> "call", loaded |-> l, text |-> t, max_length |-> mx, min_length |-> mn] :
                  l \in BOOLEAN, t \in ServiceTexts,
                  mx \in ServiceMaxLengths, mn \in ServiceMinLengths}
    /\ sm = Idle /\ cl = Idle /\ tr = Idle /\ rq = Idle /\ translator = NoTranslator
    /\ db = init_db /\ dbc = Idle /\ ex = Idle /\ reqs = <<>>

\* summarizer_service.summarize_text(text, max_length, min_length) runs to its return
ServiceSummarizeText ==
    /\ sv.pc = "call"
    /\ \E model \in ModelOutcomes :
          sv' = [pc |-> "summarize_text", loaded |-> sv.loaded, text |-> sv.text,
                 max_length |-> sv.max_length, min_length |-> sv.min_length,
                 out |-> SummarizationServiceSummarizeText(sv.loaded, sv.text, sv.max_length,
                                                           sv.min_length, model)]
    /\ UNCHANGED <<sm, cl, tr, rq, translator, db, dbc, ex, reqs>>

ServiceNext == ServiceSummarizeText

SpecSummarizationService == ServiceInit /\ [][ServiceNext]_vars

\* the words of the text as the service counts them, at most max_input_length of them
InputWords == Min(Len(Words(sv.text)), max_input_length)

\* C18: with a model loaded, whenever summarize_text calls the model (min_length and
\* max_length not negative) the bounds passed are clamped by the input length:
\* adjusted_min_length <= adjusted_max_length <= max_length, adjusted_max_length <=
\* floor(input words / 2), adjusted_min_length <= min_length; and when the cleaned text
\* has fewer words than min_length the model is not called and the cleaned text is
\* returned with compression_ratio 1.0.
C18_ModelBoundsClamped ==
    sv.pc = "summarize_text" /\ sv.loaded =>
        /\ \A k \in DOMAIN sv.out.model_calls :
              LET call == sv.out.model_calls[k]
              IN  /\ call.min_length <= call.max_length
                  /\ call.max_length <= sv.max_length
                  /\ call.max_length <= Len(Words(sv.text)) \div 2
                  /\ call.max_length <= InputWords \div 2
                  /\ call.min_length <= sv.min_length
        /\ InputWords < sv.min_length =>
              /\ sv.out.model_calls = <<>>
              /\ Words(sv.out.ret.summary) = [k \in 1..InputWords |-> Words(sv.text)[k]]
              /\ Len(sv.out.ret.summary) = Max(0, 2 * InputWords - 1)
              /\ sv.out.ret.compression_ratio = <<1, 1>>
        /\ InputWords >= sv.min_length => Len(sv.out.model_calls) = 1

\* the model is called with both bounds lowered, on a text cut to max_input_length words
C18_Witness ==
    /\ sv.pc = "summarize_text" /\ sv.loaded
    /\ Len(sv.out.model_calls) = 1
    /\ sv.out.model_calls[1].max_length < sv.max_length
    /\ sv.out.model_calls[1].min_length < sv.min_length
    /\ sv.out.model_calls[1].min_length > 0
    /\ Len(Words(sv.text)) > max_input_length

---------------------------------------------------------------------------
(* Summarizer.summarize: which sentences pass the length filter.           *)

\* the trimmed pieces of the cleaned text between runs of sentence delimiters
TrimmedPieces ==
    LET pieces == ReSplitRuns(sm.out.text, SentenceDelims)
    IN  [k \in DOMAIN pieces |-> Strip(pieces[k])]

LongerThan(n) == SelectSeq(TrimmedPieces, LAMBDA s : Len(s) > n)

\* the kept sentences are the trimmed pieces longer than n characters, in order, and
\* they are the ones counted by the 2-sentence threshold and scored
KeptAreLongerThan(n) ==
    /\ sm.out.sentences = LongerThan(n)
    /\ sm.out.branch = "short" <=> Len(LongerThan(n)) <= 2
    /\ sm.out.branch = "scored" =>
          /\ Len(sm.out.scored_sentences) = Len(LongerThan(n))
          /\ \A k \in DOMAIN sm.out.scored_sentences :
                \E j \in DOMAIN TrimmedPieces :
                    sm.out.scored_sentences[k].sentence = TrimmedPieces[j]

\* C19 as stated: after the split on the sentence delimiters a trimmed sentence of 10
\* or more characters is kept, counts towards the 2-sentence threshold and is scored,
\* and a trimmed sentence of fewer than 10 characters is dropped.
C19_SentencesOfTenOrMoreKept ==
    (SummDone /\ sm.out.branch # "empty") => KeptAreLongerThan(9)

\* C19 amended: after the split on the sentence delimiters a trimmed sentence of more
\* than 10 characters is kept, counts towards the 2-sentence threshold and is scored,
\* and a trimmed sentence of 10 or fewer characters is dropped.
C19_SentencesOverTenKept ==
    (SummDone /\ sm.out.branch # "empty") => KeptAreLongerThan(10)

\* a text with two sentences over 10 characters and one of exactly 10: the one of 10
\* is dropped and the text is returned by the 2-sentence rule
C19_Witness ==
    /\ SummDone
    /\ \E j \in DOMAIN TrimmedPieces : Len(TrimmedPieces[j]) = 10
    /\ Len(LongerThan(9)) = 3
    /\ Len(sm.out.sentences) = 2
    /\ sm.out.branch = "short"

---------------------------------------------------------------------------
(* URLExtractor.super_clean_content: which cleaned results are returned.   *)

\* C20 as stated: whenever the cleaned result is 50 characters or longer, that cleaned
\* result itself is returned, not the "no meaningful content" message.
C20_ResultOfFiftyOrMoreReturned ==
    CleanDone => (Len(cl.out.result) >= 50 => cl.out.ret = cl.out.result)

\* C20 amended: whenever the cleaned result is longer than 50 characters, that cleaned
\* result itself is returned; a cleaned result of exactly 50 characters is replaced by
\* the "no meaningful content" message; and only results of 50 characters or fewer
\* are replaced.
C20_ResultOverFiftyReturned ==
    CleanDone =>
        /\ Len(cl.out.result) > 50 => cl.out.ret = cl.out.result
        /\ Len(cl.out.result) = 50 => cl.out.ret = NoMeaningfulContent
        /\ cl.out.ret # cl.out.result => Len(cl.out.result) <= 50

\* a cleaned result of exactly 50 characters was replaced by the message
C20_Witness ==
    /\ CleanDone
    /\ Len(cl.out.result) = 50
    /\ cl.out.ret = NoMeaningfulContent

---------------------------------------------------------------------------
(* Summarizer.summarize: the result when no sentence fits the budget.      *)

\* more than 2 sentences were kept and the selection loop selected none of them
NothingSelected == SummScored /\ sm.out.selected_sentences = <<>>

\* C21: when the text has more than 2 sentences and no sentence fits the character
\* budget, so that nothing is selected, the result is the first max_length characters
\* of the text (as given, or as cleaned) followed by "...".
C21_NothingSelectedFallsBackToTruncation ==
    NothingSelected =>
        sm.out.result \in {Take(sm.out.text, sm.max_length) \o Ellipsis,
                           Take(sm.text, sm.max_length) \o Ellipsis}

---------------------------------------------------------------------------
(* URLExtractor.super_clean_content: legal phrases in the returned string. *)

\* C22: for every input text, the string returned by super_clean_content contains
\* none of the fixed legal phrases, compared case-insensitively: the re-joining of the
\* kept sentences, the final regex deletions and the whitespace collapsing never bring
\* a removed phrase back into the output.
C22_ReturnedStringHoldsNoLegalPhrase ==
    CleanDone =>
        \A p \in 1..Len(nuclear_removal_phrases) :
            ~HoldsPhrase(cl.out.ret, nuclear_removal_phrases[p])

---------------------------------------------------------------------------
(* Translator.translate: which of the two paths is run.                    *)

Ran(path) == \E k \in DOMAIN tr.calls : tr.calls[k] = path

\* C23: for text that is not blank the offline transliteration is run exactly when the
\* online translator was not created at start-up or its call raised, and then its
\* rendering is the result; when the online call returns, its result is returned
\* unchanged and the offline path is not run; for empty or whitespace-only text neither
\* path is run and "No text to translate" is returned.
C23_OfflineExactlyWhenOnlineUnavailable ==
    tr.pc = "translated" =>
        /\ ~Blank(tr.text) =>
              /\ Ran("_offline_translate") <=> (~translator.gt \/ tr.online.kind = "raise")
              /\ Ran("gt.translate") <=> translator.gt
              /\ Ran("_offline_translate") =>
                    /\ tr.calls[Len(tr.calls)] = "_offline_translate"
                    /\ tr.outcome = Return(OfflineTranslate(tr.text).result)
              /\ (translator.gt /\ tr.online.kind = "return") =>
                    /\ tr.outcome = tr.online
                    /\ tr.calls = <<"gt.translate">>
        /\ Blank(tr.text) =>
              /\ tr.calls = <<>>
              /\ tr.outcome = Return(NoTextToTranslate)

\* the online translator exists, its call raised, and the offline path ran after it
C23_Witness ==
    /\ tr.pc = "translated"
    /\ ~Blank(tr.text)
    /\ translator.gt /\ tr.online.kind = "raise"
    /\ tr.calls = <<"gt.translate", "_offline_translate">>
    /\ tr.outcome = Return(OfflineTranslate(tr.text).result)

---------------------------------------------------------------------------
(* URLExtractor.extract: the order of the sources on the general path.     *)

GeneralDone == ex.pc = "done" /\ ex.path = "general"

LibraryGaveText == ex.article.kind = "return" /\ ex.article.value # <<>>

Fetched(call) == \E k \in DOMAIN ex.calls : ex.calls[k] = call

\* C24: for a URL of another publisher, extract returns a string and tries its sources
\* in a fixed order: the library download comes first, and the BeautifulSoup fetch is
\* made, after it, only if the library raised or produced empty text; if the library
\* produced text, the cleaned library text is the result and no second fetch is made;
\* if the BeautifulSoup fetch raises, the result is "Extraction failed: " followed by
\* the error message.
C24_GeneralPathSourceOrder ==
    GeneralDone =>
        /\ ex.calls[1] = "Article.download"
        /\ Fetched("requests.get") <=> ~LibraryGaveText
        /\ LibraryGaveText =>
              /\ ex.calls = <<"Article.download">>
              /\ ex.ret = SuperCleanContent(ex.article.value).ret
        /\ ~LibraryGaveText =>
              /\ ex.calls = <<"Article.download", "requests.get">>
              /\ ex.page.kind = "raise" => ex.ret = ExtractionFailed \o ex.page.msg

\* the library raised, the page fetch raised too, and the failure string was returned
C24_Witness ==
    /\ GeneralDone
    /\ ex.article.kind = "raise"
    /\ ex.page.kind = "raise"
    /\ ex.calls = <<"Article.download", "requests.get">>
    /\ ex.ret = ExtractionFailed \o ex.page.msg

---------------------------------------------------------------------------
(* URLExtractor.extract_divya_bhaskar_content: the three strategies.       *)
(* soup is the parsed page after the unwanted elements are removed:        *)
(* areas[k] is the text of the first element matching content_selectors[k] *)
(* or None, article says whether soup.find('article') is an element and    *)
(* lists the texts of its paragraphs, paragraphs lists the texts of all p  *)
(* elements.                                                               *)

\* content_selectors has 8 entries
NumContentSelectors == 8

\* len(p.get_text(strip=True)) > 20
MinArticleParagraphLen == 20

\* len(p_text) > 30
MinSiteParagraphLen == 30

\* filtered_paragraphs[:10]
MaxSiteParagraphs == 10

paragraph_stop_words == << <<"c","o","p","y","r","i","g","h","t">>, <<"d","i","v","i","s","i","o","n">>, <<"c","o","r","p">>, <<"r","e","s","e","r","v","e","d">>, <<"e","t","h","i","c","s">> >>

\* (a selector loop that goes on past an element whose text is empty)
FirstMatchWithText(soup) ==
    LET matched == {k \in 1..NumContentSelectors : soup.areas[k] \notin {None, <<>>}}
    IN  IF matched = {} THEN 0 ELSE CHOOSE k \in matched : \A j \in matched : k <= j

\* Strategy 1: the index of the first selector for which soup.select_one(selector) is an
\* element (the loop breaks there), 0 if there is none
FirstMatch(soup) ==
    LET matched == {k \in 1..NumContentSelectors : soup.areas[k] # None}
    IN  IF matched = {} THEN 0 ELSE CHOOSE k \in matched : \A j \in matched : k <= j

\* Strategy 2: ' '.join of the paragraphs of the article element longer than 20
ArticleParagraphsText(soup) ==
    IF ~soup.article.found THEN <<>>
    ELSE Join(SelectSeq(soup.article.paragraphs, LAMBDA p : Len(p) > MinArticleParagraphLen), <<" ">>)

\* len(p_text) > 30 and not any(word in p_text.lower() for word in [...])
QualifiesSiteWide(p) ==
    /\ Len(p) > MinSiteParagraphLen
    /\ ~\E w \in DOMAIN paragraph_stop_words : Contains(Lower(p), paragraph_stop_words[w])

\* Strategy 3: ' '.join(filtered_paragraphs[:10])
SiteParagraphsText(soup) ==
    Join(Take(SelectSeq(soup.paragraphs, QualifiesSiteWide), MaxSiteParagraphs), <<" ">>)

\* content_text after each strategy, the strategies run, and the value returned
PublisherContent(soup) ==
    LET selector == FirstMatch(soup)
        text1 == IF selector = 0 THEN <<>> ELSE soup.areas[selector]
        text2 == IF text1 = <<>> THEN ArticleParagraphsText(soup) ELSE text1
        text3 == IF text2 = <<>> THEN SiteParagraphsText(soup) ELSE text2
    IN  [selector |-> selector, text1 |-> text1, text2 |-> text2, content_text |-> text3,
         strategies |-> <<1>> \o (IF text1 = <<>> THEN <<2>> ELSE <<>>)
                              \o (IF text2 = <<>> THEN <<3>> ELSE <<>>),
         ret |-> SuperCleanContent(text3).ret]

LongParagraph == <<"T","h","e"," ","c","i","t","y"," ","c","o","u","n","c","i","l"," ","m",
        "e","t"," ","o","n"," ","M","o","n","d","a","y"," ","t","o"," ","d","i",
        "s","c","u","s","s"," ","t","h","e"," ","n","e","w"," ","w","a","t","e",
        "r"," ","p","l","a","n">>
MidParagraph == <<"A"," ","n","o","t","e"," ","o","f"," ","2","5"," ","c","h","a","r","a",
        "c","t","e","r","s",".",".">>
ShortParagraph == <<"R","e","a","d"," ","m","o","r","e">>
LegalParagraph == <<"T","h","e"," ","p","a","p","e","r"," ","c","o","r","p"," ","a","n","d",
        " ","i","t","s"," ","d","i","v","i","s","i","o","n"," ","k","e","e","p",
        " ","t","h","i","s"," ","p","a","g","e">>
AreaText == <<"T","h","e"," ","m","a","i","n"," ","r","o","a","d"," ","t","o"," ","t",
        "h","e"," ","o","l","d"," ","c","i","t","y"," ","w","a","s"," ","c","l",
        "o","s","e","d"," ","a","l","l"," ","w","e","e","k"," ","a","n","d"," ",
        "t","h","e"," ","t","r","a","d","e","r","s"," ","h","a","d"," ","t","o",
        " ","w","a","i","t">>

NumberedParagraph(d) == <<"R","e","p","o","r","t"," ","p","a","r","t"," ">> \o <<d>> \o <<" ","o","n"," ","t","h","e"," ","n","e","w"," ","w","a","t","e","r"," ",
        "p","l","a","n"," ","o","f"," ","t","h","e"," ","c","i","t","y">>

ManyParagraphs ==
    [k \in 1..11 |-> NumberedParagraph(<<"1", "2", "3", "4", "5", "6", "7", "8", "9", "A", "B">>[k])]

NoAreas == [k \in 1..NumContentSelectors |-> None]

PageAreas ==
    { NoAreas,
      [NoAreas EXCEPT ![3] = AreaText],
      [NoAreas EXCEPT ![2] = <<>>, ![5] = AreaText],
      [NoAreas EXCEPT ![1] = LongParagraph, ![4] = AreaText] }

PageArticles ==
    {[found |-> FALSE, paragraphs |-> <<>>]}
    \cup {[found |-> TRUE, paragraphs |-> ps] :
             ps \in { <<>>, <<ShortParagraph>>, <<LongParagraph, MidParagraph>>,
                      <<ShortParagraph, MidParagraph, LegalParagraph>> }}

PageOtherParagraphs ==
    { <<>>, <<LongParagraph>>, <<LegalParagraph, ShortParagraph, MidParagraph>>, ManyParagraphs }

\* the p elements of the page: those of the article, then the others
Soups ==
    {[areas |-> a, article |-> art,
      paragraphs |-> art.paragraphs \o others] :
        a \in PageAreas, art \in PageArticles, others \in PageOtherParagraphs}

PublisherInit ==
    /\ ex \in {[pc |-> "publisher", url |-> PublisherUrl, soup |-> s] : s \in Soups}
    /\ sm = Idle /\ cl = Idle /\ tr = Idle /\ rq = Idle /\ translator = NoTranslator
    /\ db = init_db /\ dbc = Idle /\ sv = Idle /\ reqs = <<>>

\* extractor.extract_divya_bhaskar_content(url) runs to its return; requests.get raises
\* or returns the page
ExtractDivyaBhaskarContent ==
    /\ ex.pc = "publisher"
    /\ \E fetched \in BOOLEAN :
          LET out == PublisherContent(ex.soup)
              page == IF fetched THEN Return(out.content_text) ELSE Raise(<<"t","i","m","e","d"," ","o","u","t">>)
          IN  ex' = [pc |-> "extracted", url |-> ex.url, soup |-> ex.soup, fetched |-> fetched,
                     out |-> IF fetched THEN out ELSE None,
                     ret |-> extract_divya_bhaskar_content(ex.url, page)]
    /\ UNCHANGED <<sm, cl, tr, rq, translator, db, dbc, sv, reqs>>

PublisherNext == ExtractDivyaBhaskarContent

SpecPublisher == PublisherInit /\ [][PublisherNext]_vars

PageExtracted == ex.pc = "extracted" /\ ex.fetched

StrategyRan(n) == \E k \in DOMAIN ex.out.strategies : ex.out.strategies[k] = n

\* the first (at most n) paragraphs of the page that are longer than 30 characters and
\* hold none of the stop words
FirstQualifying(n) ==
    LET q == SelectSeq(ex.soup.paragraphs,
                       LAMBDA p : /\ Len(p) > 30
                                  /\ \A w \in DOMAIN paragraph_stop_words :
                                        ~HoldsPhrase(p, paragraph_stop_words[w]))
    IN  SubSeq(q, 1, IF Len(q) < n THEN Len(q) ELSE n)

\* C25: the three strategies are tried strictly in order and a later one is used only
\* when all earlier ones produced no text: of the content-area selectors the first one
\* that matches an element, in list order, is the only one used; the
\* paragraphs-inside-article strategy runs only if that yielded empty text; the site-wide
\* paragraph strategy runs only if the text is still empty and contributes at most the
\* first 10 qualifying paragraphs; the boilerplate filter is applied to the result.
C25_StrategiesInOrder ==
    PageExtracted =>
        /\ \A j \in 1..NumContentSelectors :
              (ex.soup.areas[j] # None /\ \A i \in 1..(j - 1) : ex.soup.areas[i] = None)
                  => ex.out.selector = j /\ ex.out.text1 = ex.soup.areas[j]
        /\ (\A j \in 1..NumContentSelectors : ex.soup.areas[j] = None)
              => ex.out.selector = 0 /\ ex.out.text1 = <<>>
        /\ StrategyRan(2) <=> ex.out.text1 = <<>>
        /\ ~StrategyRan(2) => ex.out.text2 = ex.out.text1
        /\ StrategyRan(3) <=> (ex.out.text1 = <<>> /\ ex.out.text2 = <<>>)
        /\ ~StrategyRan(3) => ex.out.content_text = ex.out.text2
        /\ StrategyRan(3) => ex.out.content_text = Join(FirstQualifying(10), <<" ">>)
        /\ \A a, b \in DOMAIN ex.out.strategies : a < b => ex.out.strategies[a] < ex.out.strategies[b]
        /\ ex.ret = SuperCleanContent(ex.out.content_text).ret

\* the first matching selector gave an element without text, a later selector matches
\* too, the article has no paragraph long enough, and the site-wide strategy took the
\* first 10 of 11 qualifying paragraphs
C25_Witness ==
    /\ PageExtracted
    /\ ex.out.selector = 2 /\ ex.soup.areas[5] # None
    /\ ex.out.strategies = <<1, 2, 3>>
    /\ Len(FirstQualifying(11)) = 11
    /\ ex.out.content_text = Join(FirstQualifying(10), <<" ">>)
    /\ ex.ret = SuperCleanContent(ex.out.content_text).ret

---------------------------------------------------------------------------
(* services/news_extractor.py: NewsExtractorService.extract_from_url.      *)
(* sv is the call in flight to a service of the services package.          *)

Letters == DOMAIN LowerMap \cup {LowerMap[c] : c \in DOMAIN LowerMap}

\* urllib.parse.scheme_chars
SchemeChars == Letters \cup {"0", "1", "2", "3", "4", "5", "6", "7", "8", "9", "+", "-", "."}

\* urlsplit first drops leading spaces and control characters and every tab and newline
UrlWithoutUnsafe(url) ==
    LET lead == {i \in 1..Len(url) : \A j \in 1..i : IsSpace(url[j])}
        rest == SubSeq(url, Cardinality(lead) + 1, Len(url))
    IN  SelectSeq(rest, LAMBDA c : c \notin {"\n", "\t"})

\* the position of the colon that ends the scheme, 0 if the URL has no scheme
SchemeEnd(u) ==
    LET colon == FirstOf(u, {":"}, 1)
    IN  IF /\ 1 < colon /\ colon <= Len(u)
           /\ u[1] \in Letters
           /\ \A k \in 1..(colon - 1) : u[k] \in SchemeChars
        THEN colon ELSE 0

\* urlparse(url).scheme
UrlScheme(url) ==
    LET u == UrlWithoutUnsafe(url)
    IN  Lower(SubSeq(u, 1, SchemeEnd(u) - 1))

\* urlparse(url).netloc: what follows "//" after the scheme, up to the next "/", "?" or
\* "#" (the URLs of the model have no brackets, for which urlsplit raises ValueError)
UrlNetloc(url) ==
    LET u == UrlWithoutUnsafe(url)
        rest == SubSeq(u, SchemeEnd(u) + 1, Len(u))
    IN  IF MatchAt(rest, <<"/","/">>, 1)
        THEN SubSeq(rest, 3, FirstOf(rest, {"/", "?", "#"}, 3) - 1)
        ELSE <<>>

\* NewsExtractorService._is_valid_url(url): all([result.scheme, result.netloc])
IsValidUrl(url) == UrlScheme(url) # <<>> /\ UrlNetloc(url) # <<>>

InvalidUrlFormat == <<"I","n","v","a","l","i","d"," ","U","R","L"," ","f","o","r","m","a","t">>
NoContentExtractedByService == <<"N","o"," ","c","o","n","t","e","n","t"," ","e","x","t","r","a","c","t",
        "e","d">>

\* len(article.text.strip()) < 50
MinPrimaryLen == 50

\* len(article.text) > 100
MinNlpLen == 100

\* (a test of the length of the text as extracted, not trimmed)
NeedsFallbackUntrimmed(text) == text = <<>> \/ Len(text) < MinPrimaryLen

\* if not article.text or len(article.text.strip()) < 50
NeedsFallback(text) == text = <<>> \/ Len(Strip(text)) < MinPrimaryLen

\* NewsExtractorService._extract_with_requests(url): fetch is what requests.get and
\* raise_for_status do; its value is the text the selector loop joins from the page
ExtractWithRequests(fetch) ==
    IF fetch.kind = "raise" THEN [text |-> <<>>, error |-> fetch.msg]
    ELSE [text |-> fetch.value, error |-> None]

\* NewsExtractorService.extract_from_url(url): net.article is what article.download()
\* and article.parse() do (the value is article.text), net.fetch what the fallback's
\* requests.get does, net.nlp what article.nlp() does.  calls lists the steps taken.
ExtractFromUrl(url, net) ==
    IF ~IsValidUrl(url)
    THEN [success |-> FALSE, error |-> InvalidUrlFormat, url |-> url, text |-> None,
          article_length |-> 0, source_url |-> None, calls |-> <<>>]
    ELSE IF net.article.kind = "raise"
    THEN [success |-> FALSE, error |-> net.article.msg, url |-> url, text |-> None,
          article_length |-> 0, source_url |-> None, calls |-> <<"article">>]
    ELSE LET primary == net.article.value
             fallback == NeedsFallback(primary)
             fallback_result == ExtractWithRequests(net.fetch)
             text == IF fallback /\ fallback_result.text # <<>>
                     THEN fallback_result.text ELSE primary
             nlp == text # <<>> /\ Len(text) > MinNlpLen
         IN  [success |-> TRUE, error |-> None, url |-> url,
              text |-> IF text # <<>> THEN text ELSE NoContentExtractedByService,
              article_length |-> Len(text), source_url |-> UrlNetloc(url),
              calls |-> <<"article">>
                        \o (IF fallback THEN <<"_extract_with_requests">> ELSE <<>>)
                        \o (IF nlp THEN <<"nlp">> ELSE <<>>)]

NewsUrls ==
    { <<"h","t","t","p","s",":","/","/","e","x","a","m","p","l","e",".","c","o",
        "m","/","s","t","o","r","y">>, <<" ","H","T","T","P",":","/","/","E","x","a","m","p","l","e",".","c","o",
        "m","?","i","d","=","7">>, <<"e","x","a","m","p","l","e",".","c","o","m","/","s","t","o","r","y">>,
      <<"h","t","t","p","s",":","/","/","/","s","t","o","r","y">>, <<>>, <<"/","/","e","x","a","m","p","l","e",".","c","o","m","/","x">>, <<"m","a","i","l","t","o",":","a","@","b",".","c">> }

\* 50 characters
FiftyChars == <<"T","h","e"," ","m","a","i","n"," ","r","o","a","d"," ","t","o"," ","t",
        "h","e"," ","o","l","d"," ","c","i","t","y"," ","w","a","s"," ","c","l",
        "o","s","e","d"," ","a","l","l"," ","w","e","e","k","s">>

PrimaryTexts ==
    { <<>>, <<" "," "," ">>, <<"T","o","o"," ","s","h","o","r","t"," ","t","o"," ","k","e","e","p",".",
        " ">>,
      <<" "," ">> \o Take(FiftyChars, 49) \o <<"\n"," ">>,
      <<" ">> \o FiftyChars \o <<" ">>,
      LongParagraph \o <<"."," ">> \o LongParagraph \o <<"."," ">> }

NewsOutcomes ==
    {[article |-> a, fetch |-> f, nlp |-> n] :
        a \in {Raise(<<"d","o","w","n","l","o","a","d"," ","f","a","i","l","e","d">>)} \cup {Return(t) : t \in PrimaryTexts},
        f \in {Raise(<<"t","i","m","e","d"," ","o","u","t">>), Return(<<>>), Return(AreaText),
               Return(AreaText \o <<"."," ">> \o AreaText)},
        n \in {Raise(<<"p","u","n","k","t"," ","n","o","t"," ","f","o","u","n","d">>), Return(<<>>)}}

NewsInit ==
    /\ sv \in {[pc |-> "extract_from_url", url |-> u] : u \in NewsUrls}
    /\ sm = Idle /\ cl = Idle /\ tr = Idle /\ rq = Idle /\ translator = NoTranslator
    /\ db = init_db /\ dbc = Idle /\ ex = Idle /\ reqs = <<>>

\* news_extractor.extract_from_url(url) runs to its return
NewsExtractFromUrl ==
    /\ sv.pc = "extract_from_url"
    /\ \E net \in NewsOutcomes :
          sv' = [pc |-> "extracted", url |-> sv.url, net |-> net,
                 out |-> ExtractFromUrl(sv.url, net)]
    /\ UNCHANGED <<sm, cl, tr, rq, translator, db, dbc, ex, reqs>>

NewsNext == NewsExtractFromUrl

SpecNewsExtractor == NewsInit /\ [][NewsNext]_vars

NewsDone == sv.pc = "extracted"

\* the string has a scheme before "://" and a host after it
HasSchemeAndHost(url) ==
    \E i \in 2..Len(url) :
        /\ MatchAt(url, <<":","/","/">>, i)
        /\ i + 3 <= Len(url)
        /\ url[i + 3] \notin {"/", "?", "#"}

Stepped(step) == \E k \in DOMAIN sv.out.calls : sv.out.calls[k] = step

PrimaryTooShort ==
    LET t == sv.net.article.value
    IN  \/ t = <<>>
        \/ Cardinality({i \in 1..Len(t) : ~IsSpace(t[i])}) = 0
        \/ Len(Strip(t)) <= 49

\* what the claim says of invalid strings, of the download and of the fallback
DownloadAndFallbackAsStated ==
    /\ ~HasSchemeAndHost(sv.url) =>
          /\ sv.out.success = FALSE /\ sv.out.error = InvalidUrlFormat
          /\ sv.out.calls = <<>>
    /\ (HasSchemeAndHost(sv.url) /\ sv.net.article.kind = "raise") =>
          /\ sv.out.success = FALSE /\ sv.out.error = sv.net.article.msg
          /\ ~Stepped("_extract_with_requests")
    /\ Stepped("_extract_with_requests") <=>
          (HasSchemeAndHost(sv.url) /\ sv.net.article.kind = "return" /\ PrimaryTooShort)
    /\ (sv.out.success /\ sv.net.article.value # <<>>) =>
          sv.out.text = IF /\ Stepped("_extract_with_requests")
                           /\ sv.net.fetch.kind = "return" /\ sv.net.fetch.value # <<>>
                        THEN sv.net.fetch.value ELSE sv.net.article.value

\* C26 as stated: extract_from_url never raises: for a string without both a scheme and
\* a host it returns success False with error "Invalid URL format" without any download;
\* if any step raises (the download, or the NLP step) it returns success False with the
\* error message; the requests fallback is attempted only when the primary text is
\* missing or under 50 characters after trimming, and its text replaces the primary
\* text only when it is non-empty.
C26_AnyRaisingStepGivesFailure ==
    NewsDone =>
        /\ DownloadAndFallbackAsStated
        /\ (Stepped("nlp") /\ sv.net.nlp.kind = "raise") =>
              sv.out.success = FALSE /\ sv.out.error = sv.net.nlp.msg

\* C26 amended: as stated for invalid strings, a raising download or parse, and the
\* fallback; but an exception of the NLP step, and one inside the requests fallback, is
\* swallowed: the result then has success True.
C26_RaisingDownloadGivesFailure ==
    NewsDone =>
        /\ DownloadAndFallbackAsStated
        /\ sv.out.success <=> (HasSchemeAndHost(sv.url) /\ sv.net.article.kind = "return")
        /\ sv.out.success => sv.out.error = None

\* the primary text was too short, the fallback fetch returned text that replaced it,
\* the NLP step raised and the result has success True
C26_Witness ==
    /\ NewsDone
    /\ sv.net.article.kind = "return" /\ PrimaryTooShort
    /\ sv.out.calls = <<"article", "_extract_with_requests", "nlp">>
    /\ sv.net.nlp.kind = "raise"
    /\ sv.out.success
    /\ sv.out.text = sv.net.fetch.value

---------------------------------------------------------------------------
(* services/translation_service.py: TranslationService.translate_text.     *)

\* if len(text) > 5000: text = text[:5000]
MaxTranslateChars == 5000

\* TranslationService._preprocess_text(text)
TranslationPreprocessText(text) == Take(JoinSplit(text), MaxTranslateChars)

\* TranslationService._postprocess_text(text)
TranslationPostprocessText(text) ==
    LET joined == JoinSplit(text)
    IN  IF joined = <<>> THEN joined ELSE <<UpperChar(joined[1])>> \o Tail(joined)

TranslationUnavailable == <<"T","r","a","n","s","l","a","t","i","o","n"," ","s","e","r","v","i","c",
        "e"," ","u","n","a","v","a","i","l","a","b","l","e">>
TranslationFailed == <<"T","r","a","n","s","l","a","t","i","o","n"," ","f","a","i","l","e","d",
        ":"," ">>

\* str(e) of the TypeError raised by translated_text[:50] when the API returned None
NoneNotSubscriptable == <<"'","N","o","n","e","T","y","p","e","'"," ","o","b","j","e","c","t"," ",
        "i","s"," ","n","o","t"," ","s","u","b","s","c","r","i","p","t","a","b",
        "l","e">>

\* TranslationService.detect_language(text): detect is what langdetect does
DetectLanguage(detect) == IF detect.kind = "raise" THEN "gu" ELSE detect.value

\* (a result that reports the text as sent to the API)
OriginalTextAsSent(text, cleaned_text) == cleaned_text

\* "original_text": text
OriginalText(text, cleaned_text) == text

\* TranslationService.translate_text(text, source_lang): loaded says whether
\* self.translator is set, api is what self.translator.translate(cleaned_text) does,
\* detect what langdetect does.  calls lists the texts sent to the API; confidence is
\* in hundredths.
TranslationServiceTranslateText(loaded, text, source_lang, api, detect) ==
    IF ~loaded
    THEN [original_text |-> text, translated_text |-> TranslationUnavailable,
          error |-> <<"M","o","d","e","l"," ","n","o","t"," ","l","o","a","d","e","d">>, source_lang |-> "None", confidence |-> 0,
          calls |-> <<>>]
    ELSE LET lang == IF source_lang = "auto" THEN DetectLanguage(detect) ELSE source_lang
             cleaned_text == TranslationPreprocessText(text)
             msg == IF api.kind = "raise" THEN api.msg
                    ELSE IF api.value = None THEN NoneNotSubscriptable ELSE None
         IN  IF msg # None
             THEN [original_text |-> OriginalText(text, cleaned_text),
                   translated_text |-> TranslationFailed \o msg,
                   error |-> msg, source_lang |-> "None", confidence |-> 0,
                   calls |-> <<cleaned_text>>]
             ELSE [original_text |-> OriginalText(text, cleaned_text),
                   translated_text |-> TranslationPostprocessText(api.value),
                   error |-> None, source_lang |-> lang, confidence |-> 85,
                   calls |-> <<cleaned_text>>]

\* a text of two words of 2600 characters
LongTranslationText ==
    <<" "," ">> \o [i \in 1..2600 |-> "k"] \o <<" ","\n"," ">> \o [i \in 1..2600 |-> "h"] \o <<" ">>

TranslationServiceTexts ==
    { <<>>, <<" ","\n">>, <<"H","e","l","l","o"," ","w","o","r","l","d">>, <<" ","u0A86","u0A9C","u0AC7"," "," ","u0AB8","u0AAE","u0ABE","u0A9A","u0ABE","u0AB0"," ","\n">>, LongTranslationText }

ApiOutcomes == {Raise(<<"q","u","o","t","a"," ","e","x","c","e","e","d","e","d">>), Return(<<"t","o","d","a","y"," "," ","n","e","w","s"," ">>), Return(None)}

DetectOutcomes == {[kind |-> "raise", msg |-> <<"N","o"," ","f","e","a","t","u","r","e","s"," ","i","n"," ","t","e","x",
        "t">>],
                   [kind |-> "return", value |-> "hi"]}

TranslationServiceInit ==
    /\ sv \in {[pc |-> "translate_text", loaded |-> l, text |-> t, source_lang |-> s] :
                  l \in BOOLEAN, t \in TranslationServiceTexts, s \in {"gu", "auto"}}
    /\ sm = Idle /\ cl = Idle /\ tr = Idle /\ rq = Idle /\ translator = NoTranslator
    /\ db = init_db /\ dbc = Idle /\ ex = Idle /\ reqs = <<>>

\* translation_service.translate_text(text, source_lang) runs to its return
ServiceTranslateText ==
    /\ sv.pc = "translate_text"
    /\ \E api \in ApiOutcomes, detect \in DetectOutcomes :
          sv' = [pc |-> "translated", loaded |-> sv.loaded, text |-> sv.text,
                 source_lang |-> sv.source_lang, api |-> api, detect |-> detect,
                 out |-> TranslationServiceTranslateText(sv.loaded, sv.text, sv.source_lang,
                                                         api, detect)]
    /\ UNCHANGED <<sm, cl, tr, rq, translator, db, dbc, ex, reqs>>

TranslationServiceNext == ServiceTranslateText

SpecTranslationService == TranslationServiceInit /\ [][TranslationServiceNext]_vars

ServiceTranslated == sv.pc = "translated"

\* C27: translate_text returns a result in every case: with no translator loaded the
\* translated_text is "Translation service unavailable" and the API is not called; if
\* the API call raises, translated_text is "Translation failed: " followed by the error
\* message; and in every outcome original_text equals the input text unmodified, not
\* the whitespace-collapsed text of at most 5000 characters sent to the API.
C27_OriginalTextUnmodified ==
    ServiceTranslated =>
        /\ sv.out.original_text = sv.text
        /\ ~sv.loaded =>
              /\ sv.out.translated_text = TranslationUnavailable
              /\ sv.out.calls = <<>>
        /\ sv.loaded =>
              /\ Len(sv.out.calls) = 1
              /\ Len(sv.out.calls[1]) <= 5000
              /\ sv.out.calls[1] = SubSeq(CollapseWhitespace(Strip(sv.text)), 1, Len(sv.out.calls[1]))
              /\ Len(sv.out.calls[1]) < 5000 => sv.out.calls[1] = CollapseWhitespace(Strip(sv.text))
        /\ (sv.loaded /\ sv.api.kind = "raise") =>
              sv.out.translated_text = TranslationFailed \o sv.api.msg

\* the API was sent a cut and collapsed text, the call raised, and the result carries
\* the input text and the failure string
C27_Witness ==
    /\ ServiceTranslated
    /\ sv.loaded /\ sv.api.kind = "raise"
    /\ Len(sv.text) > 5000
    /\ Len(sv.out.calls[1]) = 5000
    /\ sv.out.original_text = sv.text
    /\ sv.out.translated_text = TranslationFailed \o sv.api.msg

---------------------------------------------------------------------------
(* services/news_extractor.py: NewsExtractorService.clean_extracted_text.  *)

RECURSIVE ReplaceFrom(_, _, _, _)
\* str.replace from position p on: the occurrences of old are taken from left to right
\* and do not overlap
ReplaceFrom(s, old, new, p) ==
    IF p > Len(s) THEN <<>>
    ELSE IF MatchAt(s, old, p) THEN new \o ReplaceFrom(s, old, new, p + Len(old))
    ELSE <<s[p]>> \o ReplaceFrom(s, old, new, p + 1)

\* s.replace(old, new)
Replace(s, old, new) == ReplaceFrom(s, old, new, 1)

unwanted_patterns ==
    << <<"C","l","i","c","k"," ","h","e","r","e"," ","t","o">>, <<"R","e","a","d"," ","m","o","r","e">>, <<"S","u","b","s","c","r","i","b","e"," ","t","o">>, <<"F","o","l","l","o","w"," ","u","s"," ","o","n">>,
       <<"A","d","v","e","r","t","i","s","e","m","e","n","t">>, <<"A","D","V","E","R","T","I","S","E","M","E","N","T">> >>

RECURSIVE RemovePatterns(_, _)
\* for pattern in unwanted_patterns: text = text.replace(pattern, "")
RemovePatterns(text, k) ==
    IF k > Len(unwanted_patterns) THEN text
    ELSE RemovePatterns(Replace(text, unwanted_patterns[k], <<>>), k + 1)

\* NewsExtractorService.clean_extracted_text(text)
CleanExtractedText(text) ==
    IF text = <<>> THEN <<>>
    ELSE LET joined == JoinSplit(text)
             removed == RemovePatterns(joined, 1)
             three == Replace(removed, <<".",".",".">>, <<".">>)
             two == Replace(three, <<".",".">>, <<".">>)
         IN  Strip(two)

NewsBlocks ==
    << <<".">>, <<".",".">>, <<".",".",".">>, <<"W","a","i","t">>, <<" ","\n">>, <<"R","e","a","d"," ","m","o","r","e">>, <<"A","d","v","e","r","t","i","s","e","m","e","n","t">>,
       <<"u0A96","u0AAC","u0AB0"," ","u0A86","u0A9C","u0AC7">> >>

NewsTexts == {Concat([k \in DOMAIN bs |-> NewsBlocks[bs[k]]]) : bs \in BlockSeqs(NewsBlocks, MaxBlocks)}

NewsCleanInit ==
    /\ sv \in {[pc |-> "clean_extracted_text", text |-> t] : t \in NewsTexts}
    /\ sm = Idle /\ cl = Idle /\ tr = Idle /\ rq = Idle /\ translator = NoTranslator
    /\ db = init_db /\ dbc = Idle /\ ex = Idle /\ reqs = <<>>

\* news_extractor.clean_extracted_text(text) runs to its return
NewsCleanExtractedText ==
    /\ sv.pc = "clean_extracted_text"
    /\ sv' = [pc |-> "cleaned", text |-> sv.text, out |-> CleanExtractedText(sv.text)]
    /\ UNCHANGED <<sm, cl, tr, rq, translator, db, dbc, ex, reqs>>

NewsCleanNext == NewsCleanExtractedText

SpecNewsCleaner == NewsCleanInit /\ [][NewsCleanNext]_vars

\* C28: for every input text, the output of clean_extracted_text never contains two
\* adjacent period characters.
C28_NoAdjacentPeriods ==
    sv.pc = "cleaned" =>
        \A i \in 1..(Len(sv.out) - 1) : ~(sv.out[i] = "." /\ sv.out[i + 1] = ".")

---------------------------------------------------------------------------
(* Database.get_recent_activity: what the recent activity is drawn from.   *)

ActivityReturned == dbc.pc = "get_recent_activity"

\* C29: get_recent_activity(limit) returns at most limit entries, newest first, drawn
\* from both the translations and the summaries tables (so as many entries as the two
\* tables hold, up to limit), each with its texts shortened to at most 100 characters
\* plus "...".
C29_RecentActivityFromBothTables ==
    ActivityReturned =>
        /\ Len(dbc.ret) <= dbc.limit
        /\ \A j \in 1..(Len(dbc.ret) - 1) : dbc.ret[j].timestamp >= dbc.ret[j + 1].timestamp
        /\ \A j \in DOMAIN dbc.ret :
              /\ Len(dbc.ret[j].original_text) <= 103
              /\ Len(dbc.ret[j].processed_text) <= 103
        /\ Len(dbc.ret) = Min(dbc.limit, Len(db.translations) + Len(db.summaries))

---------------------------------------------------------------------------
(* utils/helpers.py: truncate_text.                                        *)

\* text[:n] of Python: a negative n counts from the end of the text
SliceTo(text, n) == IF n >= 0 THEN Take(text, n) ELSE Take(text, Max(0, Len(text) + n))

\* truncate_text(text, max_length, suffix)
truncate_text(text, max_length, suffix) ==
    IF Len(text) <= max_length THEN text
    ELSE SliceTo(text, max_length - Len(suffix)) \o suffix

TruncateTexts == {<<>>, <<"a","b","c">>, <<"H","e","l","l","o"," ","w","o","r","l","d">>, <<"u0A86","u0A9C","u0AC7"," ","u0AB8","u0AAE","u0ABE","u0A9A","u0ABE","u0AB0"," ","u0A9B","u0AC7"," ","u0A85","u0AA8","u0AC7"," ",
        "u0A96","u0AAC","u0AB0">>}

\* the largest max_length passed to truncate_text
MaxTruncateLength == 12

TruncateSuffixes == {<<>>, <<".",".",".">>, <<"u2026">>, <<" ","[","m","o","r","e","]">>}

TruncateInit ==
    /\ sv \in {[pc |-> "truncate_text", text |-> t, max_length |-> n, suffix |-> s] :
                  t \in TruncateTexts, n \in 0..MaxTruncateLength, s \in TruncateSuffixes}
    /\ sm = Idle /\ cl = Idle /\ tr = Idle /\ rq = Idle /\ translator = NoTranslator
    /\ db = init_db /\ dbc = Idle /\ ex = Idle /\ reqs = <<>>

\* truncate_text(text, max_length, suffix) runs to its return
TruncateText ==
    /\ sv.pc = "truncate_text"
    /\ sv' = [pc |-> "truncated", text |-> sv.text, max_length |-> sv.max_length,
              suffix |-> sv.suffix,
              out |-> truncate_text(sv.text, sv.max_length, sv.suffix)]
    /\ UNCHANGED <<sm, cl, tr, rq, translator, db, dbc, ex, reqs>>

TruncateNext == TruncateText

SpecTruncate == TruncateInit /\ [][TruncateNext]_vars

\* C30: for every text, max_length >= 0 and suffix, the string truncate_text returns is
\* at most max_length characters long, and it equals the input when the input already
\* fits.
C30_TruncatedWithinMaxLength ==
    sv.pc = "truncated" =>
        /\ Len(sv.out) <= sv.max_length
        /\ Len(sv.text) <= sv.max_length => sv.out = sv.text

====
